---- MODULE Spec2Model ----
(***************************************************************************)
(* Entity-relational metadata framework of sp2genius                       *)
(* (src/sp2genius/database/core): declaration of entity types through the  *)
(* metaclass EntityMeta and the __init_subclass__ hooks of BaseEntity and  *)
(* of the five taxonomy classes, and attribute assignment on the resulting *)
(* type objects.                                                           *)
(*                                                                         *)
(* Python values are modelled by records that keep the runtime type of the *)
(* container ("kind"), because the validators decide by isinstance.        *)
(* Names are strings; NotAStr stands for any object that is not a str      *)
(* (None included) where a name is expected.  A dict is iterated in the    *)
(* order in which the model lists its possible keys (ColOrder, TableOrder, *)
(* RefOrder).                                                              *)
(***************************************************************************)
EXTENDS Integers, Sequences, FiniteSets, TLC

VARIABLES cls, res, obj, db, call, mgr

vars == <<cls, res, obj, db, call, mgr>>

(***************************************************************************)
(* Bounds of the model.                                                    *)
(***************************************************************************)
\* longest PRIMARY_KEYS tuple a class body declares
MaxPkLen == 2
\* levels of further subclasses below a declared entity type
MaxSubLevels == 1
\* levels of containers nested in the value of a class attribute
MaxDepth == 2

(***************************************************************************)
(* Names.                                                                  *)
(***************************************************************************)
NotAStr == "#obj"

ColOrder ==
    <<"id", "pid", "class", "name",
      "genius_id", "genius_url", "title", "primary_artist_genius_id", "album_genius_id",
      "artist_genius_id", "song_genius_id",
      "artist_id", "album_id", "track_id", "primary_artist_id", "url">>
TableOrder ==
    <<"ta", "tb", "",
      "genius_artist_info", "genius_album_info", "genius_song_info",
      "artists", "albums", "songs">>
RefOrder == <<"rid", "rid2", "1x", "genius_id", "artist_id", "album_id", "track_id">>

NotIdentifiers == {"1x"}
Keywords == {"class"}

IsStr(n) == n # NotAStr

\* utils.is_valid_identifier: 0 valid, 1 not a str, 2 empty, 3 not an
\* identifier, 4 keyword
is_valid_identifier(name) ==
    IF ~IsStr(name) THEN 1
    ELSE IF name = "" THEN 2
    ELSE IF name \in NotIdentifiers THEN 3
    ELSE IF name \in Keywords THEN 4
    ELSE 0

\* the exception the callers raise for a code of is_valid_identifier
IdentifierError(code) ==
    IF code = 0 THEN "ok" ELSE IF code = 1 THEN "TypeError" ELSE "ValueError"

\* EntityMeta._identifier_validation
_identifier_validation(name) == IdentifierError(is_valid_identifier(name))

Min(S) == CHOOSE i \in S : \A j \in S : i <= j

\* the element of a one-element set
The(S) == CHOOSE x \in S : TRUE

\* the first error met when iterating over the keys of f in the order `order`,
\* err(k) being the outcome of the loop body for key k
FirstError(order, f, err(_)) ==
    LET bad == {i \in 1..Len(order) : order[i] \in DOMAIN f /\ err(order[i]) # "ok"}
    IN IF bad = {} THEN "ok" ELSE err(order[Min(bad)])

\* the first error met when iterating over a tuple
FirstSeqError(s, err(_)) ==
    LET bad == {i \in 1..Len(s) : err(s[i]) # "ok"}
    IN IF bad = {} THEN "ok" ELSE err(s[Min(bad)])

\* the names of an iterable, in iteration order
KeysInOrder(order, f) == SelectSeq(order, LAMBDA k : k \in DOMAIN f)

SeqRange(s) == {s[i] : i \in 1..Len(s)}

\* EntityMeta._identifiers_validation
_identifiers_validation(names) == FirstSeqError(names, _identifier_validation)

(***************************************************************************)
(* Attribute names.                                                        *)
(***************************************************************************)
CONCRETE_ENTITY_FLAG_ATTR == "_CONCRETE_ENTITY"
BASE_FREEZE_KEYS_ATTR == "_BASE_FREEZE_KEYS"
BASE_SLOTS_SOURCE_NAME_ATTR == "_BASE_SLOTS_SOURCE_NAME"
_DERIVED_FREEZE_KEYS_ATTR == "_DERIVED_FREEZE_KEYS"
_DERIVED_SLOTS_SOURCE_NAME_ATTR == "_DERIVED_SLOTS_SOURCE_NAME"

\* the names the metaclass EntityMeta defines as class attributes
EntityMetaAttrs ==
    {"CONCRETE_ENTITY_FLAG_ATTR", "BASE_FREEZE_KEYS_ATTR", "BASE_SLOTS_SOURCE_NAME_ATTR",
     "EXTRA_FREEZE_KEYS_ATTR", "_DERIVED_FREEZE_KEYS_ATTR", "_DERIVED_SLOTS_SOURCE_NAME_ATTR"}

\* BaseEntity._BASE_FREEZE_KEYS: the four required configs
_BASE_FREEZE_KEYS == {"TABLE_META", "PRIMARY_KEYS", "FOREIGN_KEYS", "TABLE_NAME"}
\* BaseEntity._BASE_SLOTS_SOURCE_NAME
_BASE_SLOTS_SOURCE_NAME == "TABLE_META"

InternalFreezeKeys == {_DERIVED_FREEZE_KEYS_ATTR, _DERIVED_SLOTS_SOURCE_NAME_ATTR, "__slots__"}

(***************************************************************************)
(* EntityMeta._freeze and EntityMeta.frozen_type: the runtime type of a    *)
(* value once frozen.                                                      *)
(***************************************************************************)
frozen_type(kind) ==
    CASE kind = "dict" -> "mappingproxy"
      [] kind \in {"list", "tuple", "range"} -> "tuple"
      [] kind \in {"set", "frozenset"} -> "frozenset"
      [] kind = "bytearray" -> "bytes"
      [] OTHER -> kind

\* a container value keeps its content and changes its runtime type
_freeze(v) == [v EXCEPT !.kind = frozen_type(v.kind)]

(***************************************************************************)
(* Nested values.  Py(kind, items) is a Python object of runtime type kind *)
(* that holds the objects items: the values of a dict or of a mappingproxy *)
(* (their keys are hashable and hold no container), the elements of a      *)
(* list, tuple, set or frozenset; int, str, bytes and bytearray hold       *)
(* nothing.                                                                *)
(***************************************************************************)
Py(kind, items) == [kind |-> kind, items |-> items]

\* EntityMeta._freeze applied to a nested value: dicts, lists and tuples are
\* rebuilt from their frozen items, sets are copied into a frozenset, a
\* bytearray into bytes, every other object is returned as it is
RECURSIVE EntityMeta_freeze(_)
EntityMeta_freeze(v) ==
    IF v.kind = "dict"
    THEN Py("mappingproxy", [i \in 1..Len(v.items) |-> EntityMeta_freeze(v.items[i])])
    ELSE IF v.kind \in {"list", "tuple"}
         THEN Py("tuple", [i \in 1..Len(v.items) |-> EntityMeta_freeze(v.items[i])])
    ELSE IF v.kind \in {"set", "frozenset"} THEN Py("frozenset", v.items)
    ELSE IF v.kind = "bytearray" THEN Py("bytes", v.items)
    ELSE v

(***************************************************************************)
(* Values of the four configs.                                             *)
(*   TABLE_NAME   : a name                                                 *)
(*   TABLE_META   : [kind, cols]  cols : column name -> FieldMeta          *)
(*   PRIMARY_KEYS : [kind, items] items: sequence of names                 *)
(*   FOREIGN_KEYS : [kind, rels]  rels : table name -> (ref col -> fk col) *)
(* FieldMeta is [py_type, nullable]; allowed_types/is_valid_value belong   *)
(* to the instance operations.                                             *)
(***************************************************************************)
NoFields == [c \in {} |-> [py_type |-> "int", nullable |-> FALSE]]
NoRels == [t \in {} |-> [r \in {} |-> ""]]

\* the value None under each config (class body of BaseEntity)
NoneMeta == [kind |-> "NoneType", cols |-> NoFields]
NonePk == [kind |-> "NoneType", items |-> <<>>]
NoneFk == [kind |-> "NoneType", rels |-> NoRels]

(***************************************************************************)
(* BaseEntity validators (classmethods reading the class attributes).      *)
(* Each returns "ok" or the name of the exception it raises.               *)
(***************************************************************************)
\* BaseEntity._validate_table_name
_validate_table_name(c) ==
    IF ~IsStr(c.TABLE_NAME) THEN "TypeError" ELSE "ok"

\* loop body of _validate_table_meta for one (f_name, f_meta) item
TableMetaItemError(meta, f_name) ==
    LET result == is_valid_identifier(f_name)
        f_meta == meta.cols[f_name]
    IN IF result # 0 THEN IdentifierError(result)
       ELSE IF f_meta.py_type = "NoneType" THEN "TypeError"
       ELSE "ok"

\* BaseEntity._validate_table_meta
_validate_table_meta(c) ==
    IF c.TABLE_META.kind # frozen_type("dict") THEN "TypeError"
    ELSE IF DOMAIN c.TABLE_META.cols = {} THEN "TypeError"
    ELSE FirstError(ColOrder, c.TABLE_META.cols,
                    LAMBDA f_name : TableMetaItemError(c.TABLE_META, f_name))

\* loop body of _validate_primary_keys for one pk
PrimaryKeyItemError(c, pk) ==
    IF ~IsStr(pk) THEN "TypeError"
    ELSE IF pk \notin DOMAIN c.TABLE_META.cols THEN "ValueError"
    ELSE IF c.TABLE_META.cols[pk].nullable THEN "ValueError"
    ELSE "ok"

\* BaseEntity._validate_primary_keys
_validate_primary_keys(c) ==
    IF c.PRIMARY_KEYS.kind # frozen_type("tuple") THEN "TypeError"
    ELSE IF c.PRIMARY_KEYS.items = <<>> THEN "TypeError"
    ELSE FirstSeqError(c.PRIMARY_KEYS.items, LAMBDA pk : PrimaryKeyItemError(c, pk))

\* inner loop body of _validate_foreign_keys for one (ref_col, fk_col) item
RefItemError(c, ref_mapping, ref_col) ==
    LET fk_col == ref_mapping[ref_col]
        ref_col_result == is_valid_identifier(ref_col)
        fk_col_result == is_valid_identifier(fk_col)
    IN IF ref_col_result # 0 THEN IdentifierError(ref_col_result)
       ELSE IF fk_col_result # 0 THEN IdentifierError(fk_col_result)
       ELSE IF fk_col \notin DOMAIN c.TABLE_META.cols THEN "ValueError"
       ELSE "ok"

\* outer loop body of _validate_foreign_keys for one (table_name, ref_mapping)
RelError(c, table_name) ==
    LET ref_mapping == c.FOREIGN_KEYS.rels[table_name]
    IN IF ~IsStr(table_name) THEN "TypeError"
       ELSE IF table_name = "" THEN "ValueError"
       ELSE IF DOMAIN ref_mapping = {} THEN "ValueError"
       ELSE FirstError(RefOrder, ref_mapping,
                       LAMBDA ref_col : RefItemError(c, ref_mapping, ref_col))

\* BaseEntity._validate_foreign_keys
_validate_foreign_keys(c) ==
    IF c.TABLE_META.kind = "NoneType" \/ c.FOREIGN_KEYS.kind = "NoneType"
    THEN "AssertionError"
    ELSE IF c.FOREIGN_KEYS.kind # frozen_type("dict") THEN "TypeError"
    ELSE FirstError(TableOrder, c.FOREIGN_KEYS.rels,
                    LAMBDA table_name : RelError(c, table_name))

\* BaseEntity._validate_entity_configs
_validate_entity_configs(c) ==
    IF _validate_table_name(c) # "ok" THEN _validate_table_name(c)
    ELSE IF _validate_table_meta(c) # "ok" THEN _validate_table_meta(c)
    ELSE IF _validate_primary_keys(c) # "ok" THEN _validate_primary_keys(c)
    ELSE _validate_foreign_keys(c)

\* BaseEntity.get_pk_names
get_pk_names(c) == c.PRIMARY_KEYS.items

\* BaseEntity.get_fk_mapping
get_fk_mapping(c) == c.FOREIGN_KEYS.rels

\* the local foreign-key columns of one relationship: set(ref_mapping.values())
FkCols(ref_mapping) == {ref_mapping[r] : r \in DOMAIN ref_mapping}

\* next(iter(fk_mapping.values())): the first relationship of the mapping
FirstRel(fk_mapping) == fk_mapping[KeysInOrder(TableOrder, fk_mapping)[1]]

(***************************************************************************)
(* Class bodies and type objects.                                          *)
(*                                                                         *)
(* A class body (the namespace handed to the metaclass):                   *)
(*   knobs    : which of _BASE_FREEZE_KEYS / _BASE_SLOTS_SOURCE_NAME the   *)
(*              body defines ("none", "both", "freeze", "slots"); when it  *)
(*              defines them they are BaseEntity's own values              *)
(*   injected : the body defines one of the metaclass-internal attributes  *)
(*   extra    : _EXTRA_FREEZE_KEYS (a tuple of names, <<>> when absent)    *)
(*   own      : which of the four configs the body defines                 *)
(*   TABLE_NAME, TABLE_META, PRIMARY_KEYS, FOREIGN_KEYS : their values     *)
(*                                                                         *)
(* A type object:                                                          *)
(*   root     : the framework class its hooks come from                    *)
(*   user     : the type is declared by the program, not by base.py        *)
(*   level    : number of user classes on the path from the root           *)
(*   own      : the configs in the type's own __dict__                     *)
(*   TABLE_NAME .. FOREIGN_KEYS : the values attribute lookup finds        *)
(*   frozen   : _DERIVED_FREEZE_KEYS                                       *)
(*   slotsSource, slots : _DERIVED_SLOTS_SOURCE_NAME, __slots__            *)
(*   concrete : _CONCRETE_ENTITY is in the type's own __dict__             *)
(*   note     : an ordinary class attribute ("" when absent)               *)
(***************************************************************************)
NoClass ==
    [exists |-> FALSE, root |-> "", level |-> 0, user |-> FALSE, own |-> {},
     TABLE_NAME |-> NotAStr, TABLE_META |-> NoneMeta,
     PRIMARY_KEYS |-> NonePk, FOREIGN_KEYS |-> NoneFk,
     frozen |-> {}, slotsSource |-> "", slots |-> <<>>,
     concrete |-> FALSE, note |-> ""]

Fail(e) == [err |-> e, cls |-> NoClass]
Done(c) == [err |-> "ok", cls |-> c]

\* EntityMeta._is_allowed_iterable(obj, allow_str_like=False)
_is_allowed_iterable(kind) ==
    kind \in {"list", "tuple", "set", "frozenset", "dict", "KeysView", "ValuesView",
              "ItemsView", "range"}

\* EntityMeta._get_extra_freeze_keys: "ok" or the exception
_get_extra_freeze_keys(body) == _identifiers_validation(body.extra)

\* the slots a slots-source value yields, or the exception its validation raises
SlotsOf(src) ==
    IF src.kind = "NoneType" THEN [err |-> "ok", slots |-> <<>>]
    ELSE IF ~_is_allowed_iterable(src.kind) THEN [err |-> "TypeError", slots |-> <<>>]
    ELSE [err |-> _identifiers_validation(KeysInOrder(ColOrder, src.cols)),
          slots |-> KeysInOrder(ColOrder, src.cols)]

\* EntityMeta._baseline_mode: the freeze keys (a set), the slots source, the slots
_baseline_mode(body) ==
    LET no == [err |-> "ok", keys |-> {}, keysType |-> "set", slotsSource |-> "", slots |-> <<>>]
    IN IF _BASE_SLOTS_SOURCE_NAME \notin body.own THEN [no EXCEPT !.err = "ValueError"]
       ELSE IF SlotsOf(body.TABLE_META).err # "ok"
            THEN [no EXCEPT !.err = SlotsOf(body.TABLE_META).err]
       ELSE IF _get_extra_freeze_keys(body) # "ok"
            THEN [no EXCEPT !.err = _get_extra_freeze_keys(body)]
       ELSE [err |-> "ok",
             keys |-> _BASE_FREEZE_KEYS \cup SeqRange(body.extra) \cup InternalFreezeKeys,
             keysType |-> "set",
             slotsSource |-> _BASE_SLOTS_SOURCE_NAME,
             slots |-> SlotsOf(body.TABLE_META).slots]

\* EntityMeta._inherit_mode that starts from the internal keys instead of the
\* provider's derived keys
_inherit_mode_own_keys_only(provider, body) ==
    LET no == [err |-> "ok", keys |-> {}, keysType |-> "frozenset", slotsSource |-> "",
               slots |-> <<>>]
    IN IF ~provider.exists THEN [no EXCEPT !.err = "TypeError"]
       ELSE IF _get_extra_freeze_keys(body) # "ok"
            THEN [no EXCEPT !.err = _get_extra_freeze_keys(body)]
       ELSE [err |-> "ok", keys |-> InternalFreezeKeys \cup SeqRange(body.extra),
             keysType |-> "frozenset", slotsSource |-> provider.slotsSource,
             slots |-> provider.slots]

\* EntityMeta._inherit_mode with provider class `provider` (the base itself:
\* every type the metaclass creates holds the three internal attributes):
\* derived_freeze_keys | extra_freeze_keys is a frozenset
_inherit_mode(provider, body) ==
    LET no == [err |-> "ok", keys |-> {}, keysType |-> "frozenset", slotsSource |-> "",
               slots |-> <<>>]
    IN IF ~provider.exists THEN [no EXCEPT !.err = "TypeError"]
       ELSE IF ~(InternalFreezeKeys \subseteq provider.frozen)
            THEN [no EXCEPT !.err = "ValueError"]
       ELSE IF _get_extra_freeze_keys(body) # "ok"
            THEN [no EXCEPT !.err = _get_extra_freeze_keys(body)]
       ELSE IF provider.slotsSource \notin body.own
            THEN [err |-> "ok", keys |-> provider.frozen \cup SeqRange(body.extra),
                  keysType |-> "frozenset", slotsSource |-> provider.slotsSource,
                  slots |-> provider.slots]
       ELSE IF SlotsOf(body.TABLE_META).err # "ok"
            THEN [no EXCEPT !.err = SlotsOf(body.TABLE_META).err]
       ELSE [err |-> "ok", keys |-> provider.frozen \cup SeqRange(body.extra),
             keysType |-> "frozenset", slotsSource |-> provider.slotsSource,
             slots |-> SlotsOf(body.TABLE_META).slots]

\* step 4 of EntityMeta.__new__: total_freeze_keys_set.discard(flag); a
\* frozenset has no discard.  asWritten = FALSE leaves the statement out.
DiscardConcreteFlag(asWritten, mode) ==
    IF asWritten /\ mode.keysType # "set" THEN "AttributeError" ELSE "ok"

\* EntityMeta.__new__ up to and including type.__new__'s creation of the type
\* object (the __init_subclass__ hook is applied by ClassStatement)
EntityMeta_new(asWritten, root, user, base, body) ==
    LET baseline == body.knobs = "both"
        mode == IF baseline THEN _baseline_mode(body) ELSE _inherit_mode(base, body)
        fz(name, v) == IF name \in mode.keys THEN _freeze(v) ELSE v
    IN IF body.injected THEN Fail("TypeError")
       ELSE IF body.knobs \in {"freeze", "slots"} THEN Fail("TypeError")
       ELSE IF mode.err # "ok" THEN Fail(mode.err)
       ELSE IF DiscardConcreteFlag(asWritten, mode) # "ok"
            THEN Fail(DiscardConcreteFlag(asWritten, mode))
       ELSE Done([exists |-> TRUE, root |-> root,
                  level |-> IF user THEN base.level + 1 ELSE 0,
                  user |-> user,
                  own |-> body.own,
                  TABLE_NAME |-> IF "TABLE_NAME" \in body.own
                                 THEN body.TABLE_NAME ELSE base.TABLE_NAME,
                  TABLE_META |-> IF "TABLE_META" \in body.own
                                 THEN fz("TABLE_META", body.TABLE_META)
                                 ELSE base.TABLE_META,
                  PRIMARY_KEYS |-> IF "PRIMARY_KEYS" \in body.own
                                   THEN fz("PRIMARY_KEYS", body.PRIMARY_KEYS)
                                   ELSE base.PRIMARY_KEYS,
                  FOREIGN_KEYS |-> IF "FOREIGN_KEYS" \in body.own
                                   THEN fz("FOREIGN_KEYS", body.FOREIGN_KEYS)
                                   ELSE base.FOREIGN_KEYS,
                  frozen |-> mode.keys,
                  slotsSource |-> mode.slotsSource,
                  slots |-> mode.slots,
                  concrete |-> FALSE,
                  note |-> ""])

(***************************************************************************)
(* Attribute assignment and deletion on a type object                      *)
(* (EntityMeta.__setattr__, EntityMeta.__delattr__).  The value assigned   *)
(* is None ("None") or some other object ("x").                            *)
(***************************************************************************)
\* type.__setattr__: the type object with `name` bound to `value`
TypeSetAttr(c, name, value) ==
    CASE name = CONCRETE_ENTITY_FLAG_ATTR -> [c EXCEPT !.concrete = TRUE]
      [] name = "TABLE_NAME" ->
            [c EXCEPT !.own = @ \cup {name},
                      !.TABLE_NAME = IF value = "None" THEN NotAStr ELSE value]
      [] name = "TABLE_META" -> [c EXCEPT !.own = @ \cup {name}, !.TABLE_META = NoneMeta]
      [] name = "PRIMARY_KEYS" -> [c EXCEPT !.own = @ \cup {name}, !.PRIMARY_KEYS = NonePk]
      [] name = "FOREIGN_KEYS" -> [c EXCEPT !.own = @ \cup {name}, !.FOREIGN_KEYS = NoneFk]
      [] name = _DERIVED_FREEZE_KEYS_ATTR -> [c EXCEPT !.frozen = {}]
      [] name = _DERIVED_SLOTS_SOURCE_NAME_ATTR -> [c EXCEPT !.slotsSource = NotAStr]
      [] name = "__slots__" -> [c EXCEPT !.slots = <<>>]
      [] OTHER -> [c EXCEPT !.note = value]

\* EntityMeta.__setattr__ without the test against the frozen names
EntityMeta_setattr_unguarded(c, name, value) ==
    IF name = CONCRETE_ENTITY_FLAG_ATTR /\ c.concrete THEN [err |-> "AttributeError", cls |-> c]
    ELSE IF name = CONCRETE_ENTITY_FLAG_ATTR /\ value # "None"
         THEN [err |-> "AttributeError", cls |-> c]
    ELSE [err |-> "ok", cls |-> TypeSetAttr(c, name, value)]

\* EntityMeta.__setattr__
EntityMeta_setattr(c, name, value) ==
    IF name = CONCRETE_ENTITY_FLAG_ATTR /\ c.concrete THEN [err |-> "AttributeError", cls |-> c]
    ELSE IF name = CONCRETE_ENTITY_FLAG_ATTR /\ value # "None"
         THEN [err |-> "AttributeError", cls |-> c]
    ELSE IF name \in c.frozen THEN [err |-> "AttributeError", cls |-> c]
    ELSE [err |-> "ok", cls |-> TypeSetAttr(c, name, value)]

\* the attributes of the model that are in the type's own __dict__
OwnAttrs(c) ==
    c.own \cup InternalFreezeKeys
          \cup (IF c.concrete THEN {CONCRETE_ENTITY_FLAG_ATTR} ELSE {})
          \cup (IF c.note # "" THEN {"note"} ELSE {})

\* type.__delattr__ of an attribute of the type's own __dict__
TypeDelAttr(c, name) ==
    CASE name = "TABLE_NAME" -> [c EXCEPT !.own = @ \ {name}, !.TABLE_NAME = NotAStr]
      [] name = "TABLE_META" -> [c EXCEPT !.own = @ \ {name}, !.TABLE_META = NoneMeta]
      [] name = "PRIMARY_KEYS" -> [c EXCEPT !.own = @ \ {name}, !.PRIMARY_KEYS = NonePk]
      [] name = "FOREIGN_KEYS" -> [c EXCEPT !.own = @ \ {name}, !.FOREIGN_KEYS = NoneFk]
      [] name = _DERIVED_FREEZE_KEYS_ATTR -> [c EXCEPT !.frozen = {}]
      [] name = _DERIVED_SLOTS_SOURCE_NAME_ATTR -> [c EXCEPT !.slotsSource = NotAStr]
      [] name = "__slots__" -> [c EXCEPT !.slots = <<>>]
      [] OTHER -> [c EXCEPT !.note = ""]

\* EntityMeta.__delattr__
EntityMeta_delattr(c, name) ==
    IF name = CONCRETE_ENTITY_FLAG_ATTR THEN [err |-> "AttributeError", cls |-> c]
    ELSE IF name \in c.frozen THEN [err |-> "AttributeError", cls |-> c]
    ELSE IF name \notin OwnAttrs(c) THEN [err |-> "AttributeError", cls |-> c]
    ELSE [err |-> "ok", cls |-> TypeDelAttr(c, name)]

(***************************************************************************)
(* The __init_subclass__ hooks.  Each returns [err, cls]: the exception    *)
(* that aborts the class statement, or "ok" and the type object.           *)
(*                                                                         *)
(* BaseEntity reads the flag's name as mcls.CONCRETE_ENTITY_ATTR, an       *)
(* attribute EntityMeta does not define (it defines                        *)
(* CONCRETE_ENTITY_FLAG_ATTR), so the lookup raises AttributeError.        *)
(* asWritten = FALSE reads the lookup as CONCRETE_ENTITY_FLAG_ATTR.        *)
(***************************************************************************)
\* type(cls).CONCRETE_ENTITY_ATTR
ConcreteEntityAttrLookup(asWritten) ==
    IF asWritten /\ "CONCRETE_ENTITY_ATTR" \notin EntityMetaAttrs
    THEN "AttributeError" ELSE "ok"

\* BaseEntity.is_concrete_entity: [err, val]
is_concrete_entity(asWritten, c) ==
    IF ConcreteEntityAttrLookup(asWritten) # "ok"
    THEN [err |-> ConcreteEntityAttrLookup(asWritten), val |-> FALSE]
    ELSE [err |-> "ok", val |-> c.concrete]

\* BaseEntity.__new__: "ok" when an instance may be made, else the exception
BaseEntity_new(asWritten, c) ==
    IF is_concrete_entity(asWritten, c).err # "ok" THEN is_concrete_entity(asWritten, c).err
    ELSE IF ~is_concrete_entity(asWritten, c).val THEN "TypeError"
    ELSE "ok"

\* BaseEntity.__init_subclass__ without the all-or-nothing test
BaseEntity_init_subclass_any_subset(asWritten, c) ==
    IF ConcreteEntityAttrLookup(asWritten) # "ok"
    THEN Fail(ConcreteEntityAttrLookup(asWritten))
    ELSE IF c.concrete THEN Fail("TypeError")
    ELSE IF c.own = {} THEN Done(c)
    ELSE IF _validate_entity_configs(c) # "ok" THEN Fail(_validate_entity_configs(c))
    ELSE Done([c EXCEPT !.concrete = TRUE])

\* BaseEntity.__init_subclass__
BaseEntity_init_subclass(asWritten, c) ==
    LET required_config_set == _BASE_FREEZE_KEYS
        provided_config_set == {config \in required_config_set : config \in c.own}
        missing_configs == required_config_set \ provided_config_set
    IN IF ConcreteEntityAttrLookup(asWritten) # "ok"
       THEN Fail(ConcreteEntityAttrLookup(asWritten))
       ELSE IF c.concrete THEN Fail("TypeError")
       ELSE IF provided_config_set = {} THEN Done(c)
       ELSE IF missing_configs # {} THEN Fail("TypeError")
       ELSE IF _validate_entity_configs(c) # "ok" THEN Fail(_validate_entity_configs(c))
       ELSE IF EntityMeta_setattr(c, CONCRETE_ENTITY_FLAG_ATTR, "None").err # "ok"
            THEN Fail(EntityMeta_setattr(c, CONCRETE_ENTITY_FLAG_ATTR, "None").err)
       ELSE Done(EntityMeta_setattr(c, CONCRETE_ENTITY_FLAG_ATTR, "None").cls)

\* a SinglePkEntity hook that accepts any number of primary keys
SinglePkRule_any_length(c) == "ok"

\* SinglePkEntity.__init_subclass__, after the concreteness test
SinglePkRule(c) ==
    IF Len(get_pk_names(c)) # 1 THEN "TypeError" ELSE "ok"

\* SinglePkEntity.get_pk_name
get_pk_name(c) == get_pk_names(c)[1]

\* a DependentEntity hook without the subset test
DependentRule_no_subset(c) ==
    IF Cardinality(DOMAIN get_fk_mapping(c)) # 1 THEN "TypeError" ELSE "ok"

\* DependentEntity.__init_subclass__, after the concreteness test
DependentRule(c) ==
    LET fk_mapping == get_fk_mapping(c)
        fk_set == FkCols(FirstRel(fk_mapping))
        pk_set == SeqRange(get_pk_names(c))
    IN IF Cardinality(DOMAIN fk_mapping) # 1 THEN "TypeError"
       ELSE IF ~(fk_set \subseteq pk_set) THEN "TypeError"
       ELSE "ok"

\* a DependentRowEntity hook without the proper-subset test
DependentRowRule_no_test(c) == "ok"

\* DependentRowEntity.__init_subclass__, after the concreteness test
DependentRowRule(c) ==
    LET fk_set == FkCols(FirstRel(get_fk_mapping(c)))
        pk_set == SeqRange(get_pk_names(c))
    IN IF Cardinality(fk_set) = Cardinality(pk_set) THEN "TypeError" ELSE "ok"

\* ExtensionEntity.__init_subclass__, after the concreteness test
ExtensionRule(c) ==
    LET fk_set == FkCols(FirstRel(get_fk_mapping(c)))
        pk_set == SeqRange(get_pk_names(c))
    IN IF Cardinality(fk_set) < Cardinality(pk_set) THEN "TypeError" ELSE "ok"

\* BinaryAssociationEntity.__init_subclass__, after the concreteness test
BinaryAssociationRule(c) ==
    LET pk_names == get_pk_names(c)
        fk_mapping == get_fk_mapping(c)
        pk_set == SeqRange(pk_names)
        fk_set == UNION {FkCols(fk_mapping[t]) : t \in DOMAIN fk_mapping}
    IN IF Len(pk_names) # 2 THEN "TypeError"
       ELSE IF Cardinality(DOMAIN fk_mapping) # 2 THEN "TypeError"
       ELSE IF ~(\A t \in DOMAIN fk_mapping : Cardinality(DOMAIN fk_mapping[t]) = 1)
            THEN "TypeError"
       ELSE IF pk_set # fk_set THEN "TypeError"
       ELSE "ok"

\* SinglePkEntity.__init_subclass__: super().__init_subclass__(), return for an
\* abstract type, else the class's own rule
SinglePkEntity_init_subclass(asWritten, c) ==
    The({IF r.err # "ok" THEN r
         ELSE IF is_concrete_entity(asWritten, r.cls).err # "ok"
              THEN Fail(is_concrete_entity(asWritten, r.cls).err)
         ELSE IF ~is_concrete_entity(asWritten, r.cls).val THEN r
         ELSE IF SinglePkRule(r.cls) # "ok" THEN Fail(SinglePkRule(r.cls))
         ELSE r :
            r \in {BaseEntity_init_subclass(asWritten, c)}})

\* DependentEntity.__init_subclass__: super().__init_subclass__(), return for an
\* abstract type, else the class's own rule
DependentEntity_init_subclass(asWritten, c) ==
    The({IF r.err # "ok" THEN r
         ELSE IF is_concrete_entity(asWritten, r.cls).err # "ok"
              THEN Fail(is_concrete_entity(asWritten, r.cls).err)
         ELSE IF ~is_concrete_entity(asWritten, r.cls).val THEN r
         ELSE IF DependentRule(r.cls) # "ok" THEN Fail(DependentRule(r.cls))
         ELSE r :
            r \in {BaseEntity_init_subclass(asWritten, c)}})

\* DependentRowEntity.__init_subclass__: super().__init_subclass__(), return for an
\* abstract type, else the class's own rule
DependentRowEntity_init_subclass(asWritten, c) ==
    The({IF r.err # "ok" THEN r
         ELSE IF is_concrete_entity(asWritten, r.cls).err # "ok"
              THEN Fail(is_concrete_entity(asWritten, r.cls).err)
         ELSE IF ~is_concrete_entity(asWritten, r.cls).val THEN r
         ELSE IF DependentRowRule(r.cls) # "ok" THEN Fail(DependentRowRule(r.cls))
         ELSE r :
            r \in {DependentEntity_init_subclass(asWritten, c)}})

\* ExtensionEntity.__init_subclass__: super().__init_subclass__(), return for an
\* abstract type, else the class's own rule
ExtensionEntity_init_subclass(asWritten, c) ==
    The({IF r.err # "ok" THEN r
         ELSE IF is_concrete_entity(asWritten, r.cls).err # "ok"
              THEN Fail(is_concrete_entity(asWritten, r.cls).err)
         ELSE IF ~is_concrete_entity(asWritten, r.cls).val THEN r
         ELSE IF ExtensionRule(r.cls) # "ok" THEN Fail(ExtensionRule(r.cls))
         ELSE r :
            r \in {DependentEntity_init_subclass(asWritten, c)}})

\* BinaryAssociationEntity.__init_subclass__: super().__init_subclass__(), return for an
\* abstract type, else the class's own rule
BinaryAssociationEntity_init_subclass(asWritten, c) ==
    The({IF r.err # "ok" THEN r
         ELSE IF is_concrete_entity(asWritten, r.cls).err # "ok"
              THEN Fail(is_concrete_entity(asWritten, r.cls).err)
         ELSE IF ~is_concrete_entity(asWritten, r.cls).val THEN r
         ELSE IF BinaryAssociationRule(r.cls) # "ok" THEN Fail(BinaryAssociationRule(r.cls))
         ELSE r :
            r \in {BaseEntity_init_subclass(asWritten, c)}})

\* the hook type.__new__ runs for a new subclass below the framework class `root`
init_subclass(asWritten, root, c) ==
    CASE root = "SinglePkEntity" -> SinglePkEntity_init_subclass(asWritten, c)
      [] root = "DependentEntity" -> DependentEntity_init_subclass(asWritten, c)
      [] root = "DependentRowEntity" -> DependentRowEntity_init_subclass(asWritten, c)
      [] root = "ExtensionEntity" -> ExtensionEntity_init_subclass(asWritten, c)
      [] root = "BinaryAssociationEntity" ->
            BinaryAssociationEntity_init_subclass(asWritten, c)
      [] OTHER -> BaseEntity_init_subclass(asWritten, c)

(***************************************************************************)
(* Class statements.                                                       *)
(***************************************************************************)
FrameworkClasses ==
    <<"BaseEntity", "SinglePkEntity", "DependentEntity", "DependentRowEntity",
      "ExtensionEntity", "BinaryAssociationEntity">>

\* the class body of BaseEntity: the four configs set to None and both knobs
BaseEntityBody ==
    [knobs |-> "both", injected |-> FALSE, extra |-> <<>>, own |-> _BASE_FREEZE_KEYS,
     TABLE_NAME |-> NotAStr, TABLE_META |-> NoneMeta,
     PRIMARY_KEYS |-> NonePk, FOREIGN_KEYS |-> NoneFk]

\* a class body that defines none of the attributes of the model (the
\* taxonomy classes define methods only)
EmptyBody ==
    [knobs |-> "none", injected |-> FALSE, extra |-> <<>>, own |-> {},
     TABLE_NAME |-> NotAStr, TABLE_META |-> NoneMeta,
     PRIMARY_KEYS |-> NonePk, FOREIGN_KEYS |-> NoneFk]

\* `class name(base): body`: the metaclass creates the type, then the hook of
\* the base's chain runs; an exception of either aborts the statement.
\* name is a framework class's name, or "" for a user class.
ClassStatement(asWritten, base, body, name) ==
    The({IF m.err # "ok" THEN m
         ELSE IF ~base.exists THEN m
         ELSE init_subclass(asWritten, base.root, m.cls) :
            m \in {EntityMeta_new(asWritten, IF name # "" THEN name ELSE base.root,
                                  name = "", base, body)}})

\* the base of each taxonomy class
FrameworkBase(name) ==
    IF name \in {"DependentRowEntity", "ExtensionEntity"} THEN "DependentEntity"
    ELSE "BaseEntity"

\* the class statements of base.py for BaseEntity and the taxonomy classes
RECURSIVE FrameworkClass(_, _)
FrameworkClass(asWritten, name) ==
    IF name = "BaseEntity" THEN ClassStatement(asWritten, NoClass, BaseEntityBody, name)
    ELSE The({IF b.err # "ok" THEN b ELSE ClassStatement(asWritten, b.cls, EmptyBody, name) :
                 b \in {FrameworkClass(asWritten, FrameworkBase(name))}})

\* importing base.py runs its class statements in order; the first exception
\* aborts the import and no name of the module is bound
ImportBase(asWritten) ==
    FirstSeqError(FrameworkClasses, LAMBDA n : FrameworkClass(asWritten, n).err)

\* the module object of base.py, which Python builds once: for each name the
\* class bound to it, or the exception that aborted the import
BaseModule ==
    [asWritten \in BOOLEAN |->
        [name \in SeqRange(FrameworkClasses) |->
            IF ImportBase(asWritten) # "ok" THEN Fail(ImportBase(asWritten))
            ELSE FrameworkClass(asWritten, name)]]

\* `from base import name`
Imported(asWritten, name) == BaseModule[asWritten][name]

\* a program that imports the framework class `root` and declares a subclass
DeclareUnder(asWritten, root, body) ==
    The({IF imp.err # "ok" THEN imp ELSE ClassStatement(asWritten, imp.cls, body, "") :
            imp \in {Imported(asWritten, root)}})

(***************************************************************************)
(* The class bodies the model declares.                                    *)
(***************************************************************************)
NN == [py_type |-> "int", nullable |-> FALSE]
NU == [py_type |-> "str", nullable |-> TRUE]

KeyCols == {"id", "pid"}

\* dicts that declare id, non-nullable or nullable, and may declare pid
CoreMetas ==
    {[kind |-> "dict", cols |-> f] :
        f \in UNION {[D -> {NN, NU}] : D \in {{"id"}, KeyCols}}}

GoodMeta == [kind |-> "dict", cols |-> [c \in KeyCols |-> NN]]

OddMetas ==
    {NoneMeta,
     [kind |-> "list", cols |-> [c \in {"id"} |-> NN]],
     [kind |-> "dict", cols |-> [c \in {"id", "class"} |-> NN]],
     [kind |-> "dict", cols |-> [c \in {"id"} |-> [py_type |-> "NoneType", nullable |-> FALSE]]]}

SeqsUpTo(S, n) == UNION {[1..k -> S] : k \in 0..n}

CorePks == {[kind |-> "tuple", items |-> s] : s \in SeqsUpTo(KeyCols, MaxPkLen)}

OddPks ==
    {NonePk,
     [kind |-> "list", items |-> <<"id">>],
     [kind |-> "set", items |-> <<"id">>],
     [kind |-> "tuple", items |-> <<NotAStr>>]}

RefMap1(col) == [r \in {"rid"} |-> col]
RefMap2 == [r \in {"rid", "rid2"} |-> IF r = "rid" THEN "id" ELSE "pid"]
CoreRefMaps == {RefMap1("id"), RefMap1("pid"), RefMap2}

\* relationships with table ta, or with ta and tb, or none
CoreFks ==
    {[kind |-> "dict", rels |-> f] :
        f \in UNION {[D -> CoreRefMaps] : D \in {{}, {"ta"}, {"ta", "tb"}}}}

OddFks ==
    {NoneFk,
     [kind |-> "dict", rels |-> [t \in {"ta"} |-> [r \in {} |-> ""]]],
     [kind |-> "dict", rels |-> [t \in {"ta"} |-> RefMap1("class")]],
     [kind |-> "dict", rels |-> [t \in {"ta"} |-> [r \in {"1x"} |-> "id"]]],
     [kind |-> "dict", rels |-> [t \in {""} |-> RefMap1("id")]]}

OddTableNames == {"", "1x", "class", NotAStr}

Full(tn, meta, pk, fk) ==
    [knobs |-> "none", injected |-> FALSE, extra |-> <<>>, own |-> _BASE_FREEZE_KEYS,
     TABLE_NAME |-> tn, TABLE_META |-> meta, PRIMARY_KEYS |-> pk, FOREIGN_KEYS |-> fk]

Fk1 == [kind |-> "dict", rels |-> [t \in {"ta"} |-> RefMap1("id")]]
Fk2 == [kind |-> "dict",
        rels |-> [t \in {"ta", "tb"} |-> IF t = "ta" THEN RefMap1("id") ELSE RefMap1("pid")]]
Pk1 == [kind |-> "tuple", items |-> <<"id">>]
Pk2 == [kind |-> "tuple", items |-> <<"id", "pid">>]

\* well-formed bodies, one or more that each taxonomy class accepts
GoodBodies ==
    {Full("songs", GoodMeta, Pk1, [kind |-> "dict", rels |-> NoRels]),
     Full("songs", GoodMeta, Pk1, Fk1),
     Full("songs", GoodMeta, Pk2, Fk1),
     Full("songs", GoodMeta, Pk2, Fk2)}

\* a body with the configs of `own` only, taken from body b
Only(b, own) ==
    [b EXCEPT !.own = own,
              !.TABLE_NAME = IF "TABLE_NAME" \in own THEN @ ELSE NotAStr,
              !.TABLE_META = IF "TABLE_META" \in own THEN @ ELSE NoneMeta,
              !.PRIMARY_KEYS = IF "PRIMARY_KEYS" \in own THEN @ ELSE NonePk,
              !.FOREIGN_KEYS = IF "FOREIGN_KEYS" \in own THEN @ ELSE NoneFk]

\* every choice of which configs the body defines
SubsetBodies == {Only(b, own) : b \in GoodBodies, own \in SUBSET _BASE_FREEZE_KEYS}

\* bodies that touch the metaclass knobs
KnobBodies ==
    {[b EXCEPT !.knobs = k] : b \in GoodBodies, k \in {"both", "freeze", "slots"}}
    \cup {[b EXCEPT !.injected = TRUE] : b \in GoodBodies}
    \cup {[b EXCEPT !.extra = <<"note">>] : b \in GoodBodies \cup {EmptyBody}}
    \cup {[EmptyBody EXCEPT !.extra = <<"class">>]}

Bodies ==
    {Full("songs", m, p, f) : m \in CoreMetas, p \in CorePks, f \in CoreFks}
    \cup {[b EXCEPT !.TABLE_NAME = tn] : b \in GoodBodies, tn \in OddTableNames}
    \cup {[b EXCEPT !.TABLE_META = m] : b \in GoodBodies, m \in OddMetas}
    \cup {[b EXCEPT !.PRIMARY_KEYS = p] : b \in GoodBodies, p \in OddPks}
    \cup {[b EXCEPT !.FOREIGN_KEYS = f] : b \in GoodBodies, f \in OddFks}
    \cup SubsetBodies
    \cup KnobBodies

\* the bodies of the further subclasses
SubBodies ==
    {Only(b, own) : b \in {Full("songs", GoodMeta, Pk2, Fk2)},
                    own \in {{}, {"TABLE_NAME"}, _BASE_FREEZE_KEYS \ {"FOREIGN_KEYS"}}}
    \cup {Full("songs", GoodMeta, Pk1, Fk1), Full("", GoodMeta, Pk2, Fk2)}

AttrNames ==
    _BASE_FREEZE_KEYS \cup InternalFreezeKeys \cup {CONCRETE_ENTITY_FLAG_ATTR, "note"}

\* the values the model assigns to an attribute
AttrValues(name) == IF name = CONCRETE_ENTITY_FLAG_ATTR THEN {"None", "x"} ELSE {"x"}

(***************************************************************************)
(* Entity instances.                                                       *)
(*                                                                         *)
(* A Python value is [ty, v]: its runtime type and a payload.  An instance *)
(* has one slot per column of TABLE_META and no __dict__; a slot that was  *)
(* never assigned reads as UNSET through getattr(self, name, UNSET), the   *)
(* same as a slot that holds the sentinel.                                 *)
(*   fields : column -> value held by the slot                             *)
(*   raw    : a slot was assigned or deleted directly, not through         *)
(*            set_field_value                                              *)
(* The operators return [err, msg, ...]: the exception ("ok" for none),    *)
(* which raise statement it came from, and the results.                    *)
(***************************************************************************)
UNSET == [ty |-> "_UnsetType", v |-> 0]
None == [ty |-> "NoneType", v |-> 0]
IntV(n) == [ty |-> "int", v |-> n]
StrV(n) == [ty |-> "str", v |-> n]

NoObj == [exists |-> FALSE, fields |-> [c \in {} |-> UNSET], raw |-> FALSE]

\* FieldMeta.allowed_types
allowed_types(f_meta) ==
    IF f_meta.nullable THEN {f_meta.py_type, "NoneType"} ELSE {f_meta.py_type}

\* FieldMeta.is_valid_value: isinstance(value, self.allowed_types()); the values
\* modelled are of the exact types int, str, NoneType and _UnsetType, none a
\* subclass of another
is_valid_value(f_meta, value) == value.ty \in allowed_types(f_meta)

\* get_field_value with the type test ahead of the test for the sentinel
get_field_value_type_first(c, o, field_name) ==
    IF field_name \notin DOMAIN c.TABLE_META.cols
    THEN [err |-> "ValueError", msg |-> "not a valid field", val |-> UNSET]
    ELSE IF ~is_valid_value(c.TABLE_META.cols[field_name], o.fields[field_name])
         THEN [err |-> "TypeError", msg |-> "must be of type", val |-> UNSET]
    ELSE [err |-> "ok", msg |-> "", val |-> o.fields[field_name]]

\* BaseEntity.get_field_value: [err, msg, val]
get_field_value(c, o, field_name) ==
    IF field_name \notin DOMAIN c.TABLE_META.cols
    THEN [err |-> "ValueError", msg |-> "not a valid field", val |-> UNSET]
    ELSE IF o.fields[field_name] = UNSET
         THEN IF field_name \in SeqRange(c.PRIMARY_KEYS.items)
              THEN [err |-> "ValueError", msg |-> "is not set", val |-> UNSET]
              ELSE [err |-> "ok", msg |-> "", val |-> UNSET]
    ELSE IF ~is_valid_value(c.TABLE_META.cols[field_name], o.fields[field_name])
         THEN [err |-> "TypeError", msg |-> "must be of type", val |-> UNSET]
    ELSE [err |-> "ok", msg |-> "", val |-> o.fields[field_name]]

\* set_field_value without the type test
set_field_value_untyped(c, o, field_name, new_value) ==
    IF field_name \notin DOMAIN c.TABLE_META.cols
    THEN [err |-> "ValueError", msg |-> "not a valid field", obj |-> o]
    ELSE IF new_value = UNSET /\ field_name \in SeqRange(c.PRIMARY_KEYS.items)
         THEN [err |-> "ValueError", msg |-> "cannot be set to UNSET", obj |-> o]
    ELSE [err |-> "ok", msg |-> "", obj |-> [o EXCEPT !.fields[field_name] = new_value]]

\* BaseEntity.set_field_value: [err, msg, obj]
set_field_value(c, o, field_name, new_value) ==
    IF field_name \notin DOMAIN c.TABLE_META.cols
    THEN [err |-> "ValueError", msg |-> "not a valid field", obj |-> o]
    ELSE IF new_value = UNSET
         THEN IF field_name \in SeqRange(c.PRIMARY_KEYS.items)
              THEN [err |-> "ValueError", msg |-> "cannot be set to UNSET", obj |-> o]
              ELSE [err |-> "ok", msg |-> "",
                    obj |-> [o EXCEPT !.fields[field_name] = new_value]]
    ELSE IF ~is_valid_value(c.TABLE_META.cols[field_name], new_value)
         THEN [err |-> "TypeError", msg |-> "must be of type", obj |-> o]
    ELSE [err |-> "ok", msg |-> "", obj |-> [o EXCEPT !.fields[field_name] = new_value]]

\* _filter_data that drops None like the sentinel
_filter_data_drop_none(c, data) ==
    [f_name \in {k \in DOMAIN data : /\ k \in DOMAIN c.TABLE_META.cols
                                     /\ data[k] # UNSET
                                     /\ data[k] # None}
        |-> data[f_name]]

\* BaseEntity._filter_data: the items of data whose key is a column and whose
\* value is not UNSET
_filter_data(c, data) ==
    [f_name \in {k \in DOMAIN data : k \in DOMAIN c.TABLE_META.cols /\ data[k] # UNSET}
        |-> data[f_name]]

\* loop body of validate_data for one column
ValidateDataItem(c, data, field_name) ==
    IF field_name \in DOMAIN data
    THEN IF ~is_valid_value(c.TABLE_META.cols[field_name], data[field_name])
         THEN "TypeError" ELSE "ok"
    ELSE IF field_name \in SeqRange(c.PRIMARY_KEYS.items) THEN "ValueError"
    ELSE "ok"

\* validate_data without the test for a missing primary key
validate_data_keys_optional(c, data) ==
    FirstError(ColOrder, c.TABLE_META.cols,
               LAMBDA field_name :
                   IF ValidateDataItem(c, data, field_name) = "TypeError"
                   THEN "TypeError" ELSE "ok")

\* BaseEntity.validate_data: "ok" or the exception
validate_data(c, data) ==
    FirstError(ColOrder, c.TABLE_META.cols,
               LAMBDA field_name : ValidateDataItem(c, data, field_name))

\* BaseEntity.__new__ and __init__: [err, obj]
BaseEntity_init(asWritten, c, data) ==
    IF BaseEntity_new(asWritten, c) # "ok"
    THEN [err |-> BaseEntity_new(asWritten, c), obj |-> NoObj]
    ELSE IF validate_data(c, _filter_data(c, data)) # "ok"
         THEN [err |-> validate_data(c, _filter_data(c, data)), obj |-> NoObj]
    ELSE [err |-> "ok",
          obj |-> [exists |-> TRUE,
                   fields |-> [col \in DOMAIN c.TABLE_META.cols |->
                                  IF col \in DOMAIN _filter_data(c, data)
                                  THEN data[col] ELSE UNSET],
                   raw |-> FALSE]]

\* BaseEntity.validate_fields: [err, data], data the columns that are set
validate_fields(c, o) ==
    [err |-> validate_data(c, _filter_data(c, o.fields)),
     data |-> _filter_data(c, o.fields)]

(***************************************************************************)
(* The store.  rows is the content of the table TABLE_NAME: a set of rows, *)
(* each a function column -> value with None for NULL.  The table is       *)
(* created by the schema module with the primary key PRIMARY_KEYS, so no   *)
(* two rows agree on all key columns; the rows its foreign keys refer to   *)
(* are taken to exist.  A statement is [kind, cols, ignore, rowcount]: the *)
(* columns it lists (INSERT) or sets (UPDATE), whether it carries          *)
(* ON CONFLICT DO NOTHING, and cursor.rowcount after it ran.               *)
(* The methods take cur (TRUE: a cursor, FALSE: None) and simulate, and    *)
(* return [err, msg, rows, ret, calls, stmts]: the exception, the rows     *)
(* afterwards, the return value, the methods entered with their arguments  *)
(* and results, and the statements executed.                               *)
(***************************************************************************)
Stmt(kind, cols, ignore, rowcount) ==
    [kind |-> kind, cols |-> cols, ignore |-> ignore, rowcount |-> rowcount]

Entered(method, on_conflict, ret) ==
    [method |-> method, on_conflict |-> on_conflict, ret |-> ret]

Outcome(err, msg, rows, ret, calls, stmts) ==
    [err |-> err, msg |-> msg, rows |-> rows, ret |-> ret, calls |-> calls, stmts |-> stmts]

\* an INSERT that lists the key columns only
RowOf_keys_only(c, data) ==
    [col \in DOMAIN c.TABLE_META.cols |->
        IF col \in DOMAIN data /\ col \in SeqRange(c.PRIMARY_KEYS.items)
        THEN data[col] ELSE None]

\* the row an INSERT listing the columns of data adds: NULL elsewhere
RowOf(c, data) ==
    [col \in DOMAIN c.TABLE_META.cols |-> IF col \in DOMAIN data THEN data[col] ELSE None]

\* the rows the WHERE clause of data's key selects
Matching(c, rows, data) ==
    {r \in rows : \A k \in SeqRange(c.PRIMARY_KEYS.items) : r[k] = data[k]}

\* cur.execute of the INSERT: [err, rows, rowcount]
SqlInsert(c, rows, data, ignore) ==
    IF Matching(c, rows, data) # {}
    THEN IF ignore
         THEN [err |-> "ok", rows |-> rows, rowcount |-> 0]
         ELSE [err |-> "IntegrityError", rows |-> rows, rowcount |-> 0]
    ELSE [err |-> "ok", rows |-> rows \cup {RowOf(c, data)}, rowcount |-> 1]

\* an UPDATE without the WHERE clause
SqlUpdate_every_row(c, rows, data, update_cols) ==
    [rows |-> {[col \in DOMAIN r |-> IF col \in update_cols THEN data[col] ELSE r[col]] :
                  r \in rows},
     rowcount |-> Cardinality(rows)]

\* cur.execute of the UPDATE: [rows, rowcount]
SqlUpdate(c, rows, data, update_cols) ==
    [rows |-> {IF r \in Matching(c, rows, data)
               THEN [col \in DOMAIN r |-> IF col \in update_cols THEN data[col] ELSE r[col]]
               ELSE r : r \in rows},
     rowcount |-> Cardinality(Matching(c, rows, data))]

\* _validate_insert_data that requires nothing
_validate_insert_data_lenient(c, data) == "ok"

\* BaseEntity._validate_insert_data: "ok" or the exception
_validate_insert_data(c, data) ==
    IF {f_name \in DOMAIN c.TABLE_META.cols : ~c.TABLE_META.cols[f_name].nullable}
          \subseteq DOMAIN data
    THEN "ok" ELSE "ValueError"

\* insert_to_db that executes the INSERT a second time when it raised
insert_to_db_retry(c, o, rows, cur, simulate, on_conflict) ==
    LET me == <<Entered("insert_to_db", on_conflict, FALSE)>>
        v == validate_fields(c, o)
        x == SqlInsert(c, rows, v.data, on_conflict)
        st == Stmt("INSERT", DOMAIN v.data, on_conflict, x.rowcount)
    IN IF ~simulate /\ ~cur
       THEN Outcome("ValueError", "'cur' is required", rows, FALSE, me, <<>>)
       ELSE IF v.err # "ok" THEN Outcome(v.err, "validate_fields", rows, FALSE, me, <<>>)
       ELSE IF _validate_insert_data(c, v.data) # "ok"
            THEN Outcome("ValueError", "missing required fields", rows, FALSE, me, <<>>)
       ELSE IF simulate THEN Outcome("ok", "", rows, FALSE, me, <<>>)
       ELSE Outcome(x.err, "", x.rows, FALSE, me,
                    IF x.err = "ok" THEN <<st>> ELSE <<st, st>>)

\* BaseEntity.insert_to_db
insert_to_db(c, o, rows, cur, simulate, on_conflict) ==
    LET me == <<Entered("insert_to_db", on_conflict, FALSE)>>
        v == validate_fields(c, o)
        x == SqlInsert(c, rows, v.data, on_conflict)
    IN IF ~simulate /\ ~cur
       THEN Outcome("ValueError", "'cur' is required", rows, FALSE, me, <<>>)
       ELSE IF v.err # "ok" THEN Outcome(v.err, "validate_fields", rows, FALSE, me, <<>>)
       ELSE IF _validate_insert_data(c, v.data) # "ok"
            THEN Outcome("ValueError", "missing required fields", rows, FALSE, me, <<>>)
       ELSE IF simulate THEN Outcome("ok", "", rows, FALSE, me, <<>>)
       ELSE Outcome(x.err, "", x.rows, FALSE, me,
                    <<Stmt("INSERT", DOMAIN v.data, on_conflict, x.rowcount)>>)

\* update_fields_db that returns False whatever cursor.rowcount is
update_fields_db_ignores_rowcount(c, o, rows, cur, simulate) ==
    LET v == validate_fields(c, o)
        update_cols == DOMAIN v.data \ SeqRange(c.PRIMARY_KEYS.items)
        x == SqlUpdate(c, rows, v.data, update_cols)
        me == <<Entered("update_fields_db", FALSE, FALSE)>>
    IN IF ~simulate /\ ~cur
       THEN Outcome("ValueError", "'cur' is required", rows, FALSE, me, <<>>)
       ELSE IF v.err # "ok" THEN Outcome(v.err, "validate_fields", rows, FALSE, me, <<>>)
       ELSE IF update_cols = {} THEN Outcome("ok", "", rows, FALSE, me, <<>>)
       ELSE IF simulate THEN Outcome("ok", "", rows, FALSE, me, <<>>)
       ELSE Outcome("ok", "", x.rows, FALSE, me,
                    <<Stmt("UPDATE", update_cols, FALSE, x.rowcount)>>)

\* update_fields_db without the return for an empty SET clause
update_fields_db_no_early_return(c, o, rows, cur, simulate) ==
    LET v == validate_fields(c, o)
        update_cols == DOMAIN v.data \ SeqRange(c.PRIMARY_KEYS.items)
        x == SqlUpdate(c, rows, v.data, update_cols)
        me(ret) == <<Entered("update_fields_db", FALSE, ret)>>
    IN IF ~simulate /\ ~cur
       THEN Outcome("ValueError", "'cur' is required", rows, FALSE, me(FALSE), <<>>)
       ELSE IF v.err # "ok"
            THEN Outcome(v.err, "validate_fields", rows, FALSE, me(FALSE), <<>>)
       ELSE IF simulate THEN Outcome("ok", "", rows, FALSE, me(FALSE), <<>>)
       ELSE Outcome("ok", "", x.rows, x.rowcount > 0, me(x.rowcount > 0),
                    <<Stmt("UPDATE", update_cols, FALSE, x.rowcount)>>)

\* BaseEntity.update_fields_db
update_fields_db(c, o, rows, cur, simulate) ==
    LET v == validate_fields(c, o)
        update_cols == DOMAIN v.data \ SeqRange(c.PRIMARY_KEYS.items)
        x == SqlUpdate(c, rows, v.data, update_cols)
        me(ret) == <<Entered("update_fields_db", FALSE, ret)>>
    IN IF ~simulate /\ ~cur
       THEN Outcome("ValueError", "'cur' is required", rows, FALSE, me(FALSE), <<>>)
       ELSE IF v.err # "ok"
            THEN Outcome(v.err, "validate_fields", rows, FALSE, me(FALSE), <<>>)
       ELSE IF update_cols = {} THEN Outcome("ok", "", rows, FALSE, me(FALSE), <<>>)
       ELSE IF simulate THEN Outcome("ok", "", rows, FALSE, me(FALSE), <<>>)
       ELSE Outcome("ok", "", x.rows, x.rowcount > 0, me(x.rowcount > 0),
                    <<Stmt("UPDATE", update_cols, FALSE, x.rowcount)>>)

\* an association type that passes the caller's on_conflict on
BinaryAssociationEntity_insert_to_db_as_asked(c, o, rows, cur, simulate, on_conflict) ==
    insert_to_db(c, o, rows, cur, simulate, on_conflict)

\* an association type that inherits update_fields_db
BinaryAssociationEntity_update_fields_db_inherited(c, o, rows, cur, simulate) ==
    update_fields_db(c, o, rows, cur, simulate)

\* exists_in_db that probes without validating the instance
exists_in_db_unvalidated(c, o, rows, cur, simulate) ==
    LET found == {r \in rows : \A k \in SeqRange(c.PRIMARY_KEYS.items) :
                                  r[k] = o.fields[k]} # {}
        me(ret) == <<Entered("exists_in_db", FALSE, ret)>>
    IN IF ~simulate /\ ~cur
       THEN Outcome("ValueError", "'cur' is required", rows, FALSE, me(FALSE), <<>>)
       ELSE IF simulate THEN Outcome("ok", "", rows, FALSE, me(FALSE), <<>>)
       ELSE Outcome("ok", "", rows, found, me(found),
                    <<Stmt("SELECT", SeqRange(c.PRIMARY_KEYS.items), FALSE, -1)>>)

\* BaseEntity.exists_in_db; cursor.rowcount is -1 after a SELECT
exists_in_db(c, o, rows, cur, simulate) ==
    LET v == validate_fields(c, o)
        me(ret) == <<Entered("exists_in_db", FALSE, ret)>>
    IN IF ~simulate /\ ~cur
       THEN Outcome("ValueError", "'cur' is required", rows, FALSE, me(FALSE), <<>>)
       ELSE IF v.err # "ok"
            THEN Outcome(v.err, "validate_fields", rows, FALSE, me(FALSE), <<>>)
       ELSE IF simulate THEN Outcome("ok", "", rows, FALSE, me(FALSE), <<>>)
       ELSE Outcome("ok", "", rows, Matching(c, rows, v.data) # {},
                    me(Matching(c, rows, v.data) # {}),
                    <<Stmt("SELECT", SeqRange(c.PRIMARY_KEYS.items), FALSE, -1)>>)

\* BinaryAssociationEntity.insert_to_db: super().insert_to_db(on_conflict=True)
BinaryAssociationEntity_insert_to_db(c, o, rows, cur, simulate, on_conflict) ==
    insert_to_db(c, o, rows, cur, simulate, TRUE)

\* BinaryAssociationEntity.update_fields_db
BinaryAssociationEntity_update_fields_db(c, o, rows, cur, simulate) ==
    Outcome("NotImplementedError", "", rows, FALSE, <<>>, <<>>)

\* BinaryAssociationEntity.upsert_to_db
BinaryAssociationEntity_upsert_to_db(c, o, rows, cur, simulate) ==
    Outcome("NotImplementedError", "", rows, FALSE, <<>>, <<>>)

\* self.insert_to_db(...): the method of the instance's type
self_insert_to_db(c, o, rows, cur, simulate, on_conflict) ==
    IF c.root = "BinaryAssociationEntity"
    THEN BinaryAssociationEntity_insert_to_db(c, o, rows, cur, simulate, on_conflict)
    ELSE insert_to_db(c, o, rows, cur, simulate, on_conflict)

\* self.update_fields_db(...): the method of the instance's type
self_update_fields_db(c, o, rows, cur, simulate) ==
    IF c.root = "BinaryAssociationEntity"
    THEN BinaryAssociationEntity_update_fields_db(c, o, rows, cur, simulate)
    ELSE update_fields_db(c, o, rows, cur, simulate)

\* upsert_to_db that does nothing more when there is no column to update
upsert_to_db_key_only_no_op(c, o, rows, cur, simulate) ==
    LET u == self_update_fields_db(c, o, rows, cur, simulate)
        i == self_insert_to_db(c, o, u.rows, cur, simulate, FALSE)
    IN IF ~simulate /\ ~cur
       THEN Outcome("ValueError", "'cur' is required", rows, FALSE, <<>>, <<>>)
       ELSE IF u.err # "ok" \/ u.ret THEN u
       ELSE IF DOMAIN validate_fields(c, o).data \subseteq SeqRange(c.PRIMARY_KEYS.items)
            THEN u
       ELSE Outcome(i.err, i.msg, i.rows, FALSE, u.calls \o i.calls, u.stmts \o i.stmts)

\* BaseEntity.upsert_to_db
upsert_to_db(c, o, rows, cur, simulate) ==
    LET u == self_update_fields_db(c, o, rows, cur, simulate)
        i == self_insert_to_db(c, o, u.rows, cur, simulate, FALSE)
    IN IF ~simulate /\ ~cur
       THEN Outcome("ValueError", "'cur' is required", rows, FALSE, <<>>, <<>>)
       ELSE IF u.err # "ok" \/ u.ret THEN u
       ELSE Outcome(i.err, i.msg, i.rows, FALSE, u.calls \o i.calls, u.stmts \o i.stmts)

\* self.upsert_to_db(...): the method of the instance's type
self_upsert_to_db(c, o, rows, cur, simulate) ==
    IF c.root = "BinaryAssociationEntity"
    THEN BinaryAssociationEntity_upsert_to_db(c, o, rows, cur, simulate)
    ELSE upsert_to_db(c, o, rows, cur, simulate)

(***************************************************************************)
(* State: cls is the entity type the program holds (NoClass before the     *)
(* first class statement and after one that raised); res is the last       *)
(* operation, its arguments and its outcome.  obj is the entity instance    *)
(* the program holds (NoObj for none), db the rows of the table of cls in   *)
(* the store, call the last operation on an instance: its arguments, the    *)
(* exception it raised, what it returned, the methods it ran and the SQL    *)
(* statements it executed; call.found is what exists_in_db returned and     *)
(* call.again says that the call repeats the call before it (same method,   *)
(* same arguments, same instance).                                          *)
(***************************************************************************)
NoData == [c \in {} |-> UNSET]

NoCall ==
    [op |-> "", name |-> "", value |-> UNSET, data |-> NoData,
     cur |-> FALSE, simulate |-> FALSE, on_conflict |-> FALSE,
     err |-> "ok", msg |-> "", ret |-> UNSET, updated |-> FALSE,
     found |-> FALSE, again |-> FALSE,
     calls |-> <<>>, stmts |-> <<>>]

Res(op, root, body, name, value, err) ==
    [op |-> op, root |-> root, body |-> body, name |-> name, value |-> value, err |-> err]

\* the program holds no DbManager
NoManager == [exists |-> FALSE]

Init ==
    /\ cls = NoClass
    /\ res = Res("start", "", EmptyBody, "", "", "ok")
    /\ obj = NoObj
    /\ db = {}
    /\ call = NoCall
    /\ mgr = NoManager

\* the program imports a framework class and declares an entity type under it
Declare(asWritten) ==
    \E root \in SeqRange(FrameworkClasses), body \in Bodies :
        \E r \in {DeclareUnder(asWritten, root, body)} :
            /\ res.op = "start"
            /\ cls' = r.cls
            /\ res' = Res("declare", root, body, "", "", r.err)
            /\ UNCHANGED <<obj, db, call, mgr>>

\* the program declares a subclass of the entity type it holds; when the
\* statement raises the program keeps the type it had
Subclass(asWritten) ==
    \E body \in SubBodies :
        /\ cls.exists
        /\ cls.level <= MaxSubLevels
        /\ \E r \in {ClassStatement(asWritten, cls, body, "")} :
              /\ cls' = IF r.err = "ok" THEN r.cls ELSE cls
              /\ res' = Res("subclass", cls.root, body, "", "", r.err)
              /\ UNCHANGED <<obj, db, call, mgr>>

\* setattr(cls, name, value)
SetAttr ==
    \E name \in AttrNames :
        \E value \in AttrValues(name) :
            /\ cls.exists
            /\ \E r \in {EntityMeta_setattr(cls, name, value)} :
                  /\ cls' = r.cls
                  /\ res' = Res("setattr", cls.root, EmptyBody, name, value, r.err)
                  /\ UNCHANGED <<obj, db, call, mgr>>

\* delattr(cls, name)
DelAttr ==
    \E name \in AttrNames :
        /\ cls.exists
        /\ \E r \in {EntityMeta_delattr(cls, name)} :
              /\ cls' = r.cls
              /\ res' = Res("delattr", cls.root, EmptyBody, name, "", r.err)
              /\ UNCHANGED <<obj, db, call, mgr>>

DeclareAsWritten == Declare(TRUE)

\* the program as the source is written
Next == DeclareAsWritten

Spec == Init /\ [][Next]_vars

DeclareByRules == Declare(FALSE)
SubclassByRules == Subclass(FALSE)

\* the registration rules: the class statements with the two statements that
\* cannot execute (the discard on a frozenset in EntityMeta.__new__, the lookup
\* of CONCRETE_ENTITY_ATTR on EntityMeta) left out resp. resolved
NextRules == DeclareByRules \/ SubclassByRules \/ SetAttr \/ DelAttr

SpecRules == Init /\ [][NextRules]_vars

(***************************************************************************)
(* Instances of concrete types.  No class statement of the source as       *)
(* written yields a type, so the instance operations are modelled on the   *)
(* concrete types the registration rules admit: an entity type keyed on id *)
(* with a required column pid and a nullable column name, an entity type   *)
(* keyed on id whose only other column is the nullable name, and an        *)
(* association type keyed on (id, pid) with the nullable column name.      *)
(***************************************************************************)
InstMeta ==
    [kind |-> "dict",
     cols |-> [c \in {"id", "pid", "name"} |-> IF c = "name" THEN NU ELSE NN]]

EntityDecl ==
    [root |-> "SinglePkEntity",
     body |-> Full("songs", InstMeta, Pk1, [kind |-> "dict", rels |-> NoRels])]

PlainMeta ==
    [kind |-> "dict", cols |-> [c \in {"id", "name"} |-> IF c = "name" THEN NU ELSE NN]]

PlainDecl ==
    [root |-> "BaseEntity",
     body |-> Full("songs", PlainMeta, Pk1, [kind |-> "dict", rels |-> NoRels])]

AssociationDecl ==
    [root |-> "BinaryAssociationEntity", body |-> Full("songs", InstMeta, Pk2, Fk2)]

InstDecls == {EntityDecl, PlainDecl, AssociationDecl}

\* the values the program passes: two ints, a str, None and the sentinel
Values == {IntV(1), IntV(2), StrV(1), None, UNSET}

\* the names the program passes: the columns and a name that is no column
FieldNames == {"id", "pid", "name", "zz"}

\* the field maps the program constructs instances from
FieldMaps == UNION {[D -> Values] : D \in SUBSET FieldNames}

\* the program has declared one of the concrete types and holds no instance
InitInstances ==
    /\ \E d \in InstDecls :
          /\ cls = DeclareUnder(FALSE, d.root, d.body).cls
          /\ res = Res("declare", d.root, d.body, "", "", "ok")
    /\ obj = NoObj
    /\ db = {}
    /\ call = NoCall
    /\ mgr = NoManager

\* obj = cls(**data), the first thing the program does with the type; when the
\* constructor raises the program holds no instance and ends
Construct ==
    \E data \in FieldMaps :
        /\ cls.exists
        /\ ~obj.exists
        /\ call = NoCall
        /\ \E r \in {BaseEntity_init(FALSE, cls, data)} :
              /\ obj' = r.obj
              /\ call' = [NoCall EXCEPT !.op = "__init__", !.data = data, !.err = r.err]
        /\ UNCHANGED <<cls, res, db, mgr>>

\* obj.get_field_value(name)
GetField ==
    \E name \in FieldNames :
        /\ obj.exists
        /\ \E r \in {get_field_value(cls, obj, name)} :
              call' = [NoCall EXCEPT !.op = "get_field_value", !.name = name,
                                     !.err = r.err, !.msg = r.msg, !.ret = r.val]
        /\ UNCHANGED <<cls, res, obj, db, mgr>>

\* obj.set_field_value(name, value)
SetField ==
    \E name \in FieldNames, value \in Values :
        /\ obj.exists
        /\ \E r \in {set_field_value(cls, obj, name, value)} :
              /\ obj' = r.obj
              /\ call' = [NoCall EXCEPT !.op = "set_field_value", !.name = name,
                                        !.value = value, !.err = r.err, !.msg = r.msg]
        /\ UNCHANGED <<cls, res, db, mgr>>

\* obj.<slot> = value or del obj.<slot> (value UNSET), past the accessor
SlotWrite ==
    \E name \in DOMAIN obj.fields, value \in Values :
        /\ obj.exists
        /\ obj' = [obj EXCEPT !.fields[name] = value, !.raw = TRUE]
        /\ call' = [NoCall EXCEPT !.op = "slot", !.name = name, !.value = value]
        /\ UNCHANGED <<cls, res, db, mgr>>

NextFields == Construct \/ GetField \/ SetField \/ SlotWrite

SpecFields == InitInstances /\ [][NextFields]_vars

\* obj.insert_to_db(cur, simulate, on_conflict)
Insert ==
    \E cur \in BOOLEAN, simulate \in BOOLEAN, on_conflict \in BOOLEAN :
        /\ obj.exists
        /\ \E r \in {self_insert_to_db(cls, obj, db, cur, simulate, on_conflict)} :
              /\ db' = r.rows
              /\ call' = [NoCall EXCEPT !.op = "insert_to_db", !.cur = cur,
                                        !.simulate = simulate, !.on_conflict = on_conflict,
                                        !.err = r.err, !.msg = r.msg,
                                        !.calls = r.calls, !.stmts = r.stmts]
        /\ UNCHANGED <<cls, res, obj, mgr>>

\* obj.update_fields_db(cur, simulate)
Update ==
    \E cur \in BOOLEAN, simulate \in BOOLEAN :
        /\ obj.exists
        /\ \E r \in {self_update_fields_db(cls, obj, db, cur, simulate)} :
              /\ db' = r.rows
              /\ call' = [NoCall EXCEPT !.op = "update_fields_db", !.cur = cur,
                                        !.simulate = simulate,
                                        !.err = r.err, !.msg = r.msg, !.updated = r.ret,
                                        !.calls = r.calls, !.stmts = r.stmts]
        /\ UNCHANGED <<cls, res, obj, mgr>>

\* obj.upsert_to_db(cur, simulate)
Upsert ==
    \E cur \in BOOLEAN, simulate \in BOOLEAN :
        /\ obj.exists
        /\ \E r \in {self_upsert_to_db(cls, obj, db, cur, simulate)} :
              /\ db' = r.rows
              /\ call' = [NoCall EXCEPT !.op = "upsert_to_db", !.cur = cur,
                                        !.simulate = simulate,
                                        !.err = r.err, !.msg = r.msg,
                                        !.again = /\ call.op = "upsert_to_db"
                                                  /\ call.cur = cur
                                                  /\ call.simulate = simulate,
                                        !.calls = r.calls, !.stmts = r.stmts]
        /\ UNCHANGED <<cls, res, obj, mgr>>

\* obj.exists_in_db(cur, simulate)
Exists ==
    \E cur \in BOOLEAN, simulate \in BOOLEAN :
        /\ obj.exists
        /\ \E r \in {exists_in_db(cls, obj, db, cur, simulate)} :
              /\ db' = r.rows
              /\ call' = [NoCall EXCEPT !.op = "exists_in_db", !.cur = cur,
                                        !.simulate = simulate,
                                        !.err = r.err, !.msg = r.msg, !.found = r.ret,
                                        !.calls = r.calls, !.stmts = r.stmts]
        /\ UNCHANGED <<cls, res, obj, mgr>>

\* the program constructs an instance, changes its fields through the accessor
\* and writes it to the store
NextStore == Construct \/ SetField \/ Insert \/ Update \/ Upsert \/ Exists

SpecStore == InitInstances /\ [][NextStore]_vars

\* the program constructs an instance, writes its slots past the accessor,
\* inserts it and probes the store for it
NextProbe == Construct \/ SlotWrite \/ Insert \/ Exists

SpecProbe == InitInstances /\ [][NextProbe]_vars

(***************************************************************************)
(* A class body with an ordinary attribute `note` that holds a nested      *)
(* value, named or not named in _EXTRA_FREEZE_KEYS.                        *)
(***************************************************************************)
Scalars == {Py(k, <<>>) : k \in {"int", "str", "bytes", "bytearray"}}

ContainerKinds == {"dict", "mappingproxy", "list", "tuple", "set", "frozenset"}

\* Python hashes the object: the elements of a set must be hashable
RECURSIVE Hashable(_)
Hashable(v) ==
    /\ v.kind \in {"int", "str", "bytes", "tuple", "frozenset"}
    /\ \A i \in 1..Len(v.items) : Hashable(v.items[i])

\* the values nested up to d levels, a container holding at most one object
RECURSIVE NestedValues(_)
NestedValues(d) ==
    IF d = 0 THEN Scalars
    ELSE Scalars \cup
         {Py(k, <<>>) : k \in ContainerKinds} \cup
         {Py(k, <<x>>) : k \in ContainerKinds \ {"set", "frozenset"},
                         x \in NestedValues(d - 1)} \cup
         {Py(k, <<x>>) : k \in {"set", "frozenset"},
                         x \in {y \in NestedValues(d - 1) : Hashable(y)}}

NotedBodies ==
    {[b EXCEPT !.extra = e] : b \in GoodBodies, e \in {<<>>, <<"note">>}}

\* class X(root): <body>; note = value.  EntityMeta.__new__ freezes namespace
\* entries named in the frozen-key set; call.value is the value in the class
\* body and call.ret the value of X.note
DeclareNoted ==
    \E root \in SeqRange(FrameworkClasses), body \in NotedBodies :
        \E value \in NestedValues(MaxDepth) :
            \E r \in {DeclareUnder(FALSE, root, body)} :
                /\ res.op = "start"
                /\ cls' = r.cls
                /\ res' = Res("declare", root, body, "note", "", r.err)
                /\ call' = [NoCall EXCEPT
                               !.op = "class", !.err = r.err, !.value = value,
                               !.ret = IF r.err = "ok" /\ "note" \in r.cls.frozen
                                       THEN EntityMeta_freeze(value) ELSE value]
                /\ UNCHANGED <<obj, db, mgr>>

NextFreeze == DeclareNoted

SpecFreeze == Init /\ [][NextFreeze]_vars

(***************************************************************************)
(* Baseline and inherit mode below a user type: the program declares a     *)
(* type, declares subtypes of it and assigns attributes of the type it     *)
(* holds.  call.value is the parent of the last class statement, call.ret  *)
(* its body.                                                               *)
(***************************************************************************)
\* bodies with or without a baseline of their own and with or without an
\* extra freeze key
ModeBodies ==
    {[b EXCEPT !.knobs = k, !.extra = e] :
        b \in GoodBodies \cup {Only(Full("songs", GoodMeta, Pk2, Fk2), {"TABLE_NAME"}),
                               EmptyBody},
        k \in {"none", "both"}, e \in {<<>>, <<"note">>}}

\* class X(root): <body>
DeclareMode ==
    \E root \in SeqRange(FrameworkClasses), body \in ModeBodies :
        \E r \in {DeclareUnder(FALSE, root, body)} :
            /\ res.op = "start"
            /\ cls' = r.cls
            /\ res' = Res("declare", root, body, "", "", r.err)
            /\ call' = [NoCall EXCEPT !.op = "class", !.err = r.err,
                                      !.value = Imported(FALSE, root).cls, !.ret = body]
            /\ UNCHANGED <<obj, db, mgr>>

\* class Y(X): <body>; when the statement raises the program keeps X
SubclassMode ==
    \E body \in ModeBodies :
        /\ cls.exists
        /\ cls.level <= MaxSubLevels
        /\ \E r \in {ClassStatement(FALSE, cls, body, "")} :
              /\ cls' = IF r.err = "ok" THEN r.cls ELSE cls
              /\ res' = Res("subclass", cls.root, body, "", "", r.err)
              /\ call' = [NoCall EXCEPT !.op = "class", !.err = r.err,
                                        !.value = cls, !.ret = body]
              /\ UNCHANGED <<obj, db, mgr>>

NextMode == DeclareMode \/ SubclassMode \/ SetAttr

SpecMode == Init /\ [][NextMode]_vars

(***************************************************************************)
(* SpotifyEntity (database/spotify/entities.py): an abstract subclass of   *)
(* SinglePkEntity that names SPOTIFY_ENTITY_NAME as an extra freeze key    *)
(* and whose hook normalises the name of every concrete subtype.  A str is *)
(* [ty |-> "str", v |-> its characters].                                   *)
(***************************************************************************)
MaxNameLen == 3

Chars == {" ", "A", "a"}

StrOf(s) == [ty |-> "str", v |-> s]

\* the values of SPOTIFY_ENTITY_NAME that are no str: None, an int, and the
\* marker of a class body that does not bind the name
NoneName == [ty |-> "NoneType", v |-> <<>>]
IntName == [ty |-> "int", v |-> <<>>]
NoName == [ty |-> "_UnsetType", v |-> <<>>]

RECURSIVE lstrip(_)
lstrip(s) == IF s # <<>> /\ s[1] = " " THEN lstrip(Tail(s)) ELSE s

RECURSIVE rstrip(_)
rstrip(s) == IF s # <<>> /\ s[Len(s)] = " " THEN rstrip(SubSeq(s, 1, Len(s) - 1)) ELSE s

\* str.strip
strip(s) == rstrip(lstrip(s))

\* str.lower
lower(s) == [i \in 1..Len(s) |-> IF s[i] = "A" THEN "a" ELSE s[i]]

\* the class body of SpotifyEntity
SpotifyEntityBody == [EmptyBody EXCEPT !.extra = <<"SPOTIFY_ENTITY_NAME">>]

\* class SpotifyEntity(SinglePkEntity), built once when the module is imported
SpotifyEntity ==
    [asWritten \in BOOLEAN |-> DeclareUnder(asWritten, "SinglePkEntity", SpotifyEntityBody)]

\* the part of SpotifyEntity.__init_subclass__ after super().__init_subclass__()
\* on the new type c: `declared` says whether the body binds
\* SPOTIFY_ENTITY_NAME to `value`; name is the value the type holds at the end
SpotifyEntity_init_subclass(asWritten, c, declared, value) ==
    LET held == IF declared THEN value ELSE NoneName
        no == [err |-> "ok", cls |-> c, name |-> held]
    IN IF is_concrete_entity(asWritten, c).err # "ok"
       THEN [no EXCEPT !.err = is_concrete_entity(asWritten, c).err]
       ELSE IF ~is_concrete_entity(asWritten, c).val THEN no
       ELSE IF ~declared THEN [no EXCEPT !.err = "TypeError"]
       ELSE IF value.ty # "str" THEN [no EXCEPT !.err = "TypeError"]
       ELSE IF EntityMeta_setattr(c, "SPOTIFY_ENTITY_NAME", "x").err # "ok"
            THEN [no EXCEPT !.err = EntityMeta_setattr(c, "SPOTIFY_ENTITY_NAME", "x").err]
       ELSE IF strip(value.v) = <<>>
            THEN [no EXCEPT !.err = "ValueError", !.name = StrOf(<<>>)]
       ELSE [no EXCEPT !.name = StrOf(lower(strip(value.v)))]

\* class X(SpotifyEntity): <body>; SPOTIFY_ENTITY_NAME = value
SpotifySubclass(asWritten, body, declared, value) ==
    The({IF sp.err # "ok" THEN [err |-> sp.err, cls |-> NoClass, name |-> value]
         ELSE The({IF m.err # "ok" THEN [err |-> m.err, cls |-> NoClass, name |-> value]
                   ELSE SpotifyEntity_init_subclass(asWritten, m.cls, declared, value) :
                      m \in {ClassStatement(asWritten, sp.cls, body, "")}}) :
            sp \in {SpotifyEntity[asWritten]}})

SpotifyBodies ==
    GoodBodies \cup {EmptyBody, Only(Full("songs", GoodMeta, Pk1, Fk1), {"TABLE_NAME"})}

SpotifyNames ==
    {StrOf(s) : s \in SeqsUpTo(Chars, MaxNameLen)} \cup {NoneName, IntName}

\* the program declares a subtype of SpotifyEntity; call.value is the name in
\* the class body (NoName when the body has none), call.ret the value of
\* X.SPOTIFY_ENTITY_NAME when the statement ends
DeclareSpotify ==
    \E body \in SpotifyBodies, declared \in BOOLEAN :
        \E value \in IF declared THEN SpotifyNames ELSE {NoneName} :
            \E r \in {SpotifySubclass(FALSE, body, declared, value)} :
                /\ res.op = "start"
                /\ cls' = IF r.err = "ok" THEN r.cls ELSE NoClass
                /\ res' = Res("declare", "SinglePkEntity", body, "SPOTIFY_ENTITY_NAME", "",
                              r.err)
                /\ call' = [NoCall EXCEPT !.op = "class", !.err = r.err,
                                          !.value = IF declared THEN value ELSE NoName,
                                          !.ret = r.name]
                /\ UNCHANGED <<obj, db, mgr>>

NextSpotify == DeclareSpotify

SpecSpotify == Init /\ [][NextSpotify]_vars

(***************************************************************************)
(* The Genius entity types (database/genius/tables.py, entities.py).  Of   *)
(* each table the model keeps the key, the foreign-key columns and one     *)
(* required column (name, title); the columns left out have the contract   *)
(* of the required one (str, not nullable) or are nullable.                *)
(***************************************************************************)
\* a TABLE_META of non-nullable int columns ints and str columns strs
TableMetaOf(ints, strs) ==
    [kind |-> "dict",
     cols |-> [c \in ints \cup strs |->
                  IF c \in ints THEN NN ELSE [py_type |-> "str", nullable |-> FALSE]]]

\* a FOREIGN_KEYS {table: {ref_col: fk_cols[table]}}
RelsOf(ref_col, fk_cols) ==
    [kind |-> "dict",
     rels |-> [t \in DOMAIN fk_cols |-> [r \in {ref_col} |-> fk_cols[t]]]]

GENIUS_ARTIST_INFO_TABLE_NAME == "genius_artist_info"
GENIUS_ALBUM_INFO_TABLE_NAME == "genius_album_info"
GENIUS_SONG_INFO_TABLE_NAME == "genius_song_info"
GENIUS_DISCOGRAPHY_TABLE_NAME == "genius_discography"

GeniusPk == [kind |-> "tuple", items |-> <<"genius_id">>]

\* class GeniusEntity(SinglePkEntity): methods only
GeniusEntity == DeclareUnder(FALSE, "SinglePkEntity", EmptyBody).cls

GeniusArtistInfo ==
    The({ClassStatement(FALSE, base,
                   Full(GENIUS_ARTIST_INFO_TABLE_NAME,
                        TableMetaOf({"genius_id"}, {"name", "genius_url"}),
                        GeniusPk,
                        [kind |-> "dict", rels |-> NoRels]),
                   "").cls : base \in {GeniusEntity}})

GeniusAlbumInfo ==
    The({ClassStatement(FALSE, base,
                   Full(GENIUS_ALBUM_INFO_TABLE_NAME,
                        TableMetaOf({"genius_id", "primary_artist_genius_id"}, {"title"}),
                        GeniusPk,
                        RelsOf("genius_id",
                               [t \in {GENIUS_ARTIST_INFO_TABLE_NAME} |->
                                   "primary_artist_genius_id"])),
                   "").cls : base \in {GeniusEntity}})

GeniusSongInfo ==
    The({ClassStatement(FALSE, base,
                   Full(GENIUS_SONG_INFO_TABLE_NAME,
                        TableMetaOf({"genius_id", "primary_artist_genius_id",
                                     "album_genius_id"}, {"title"}),
                        GeniusPk,
                        RelsOf("genius_id",
                               [t \in {GENIUS_ARTIST_INFO_TABLE_NAME,
                                       GENIUS_ALBUM_INFO_TABLE_NAME} |->
                                   IF t = GENIUS_ARTIST_INFO_TABLE_NAME
                                   THEN "primary_artist_genius_id"
                                   ELSE "album_genius_id"])),
                   "").cls : base \in {GeniusEntity}})

GeniusDiscographyEntry ==
    DeclareUnder(FALSE, "BinaryAssociationEntity",
                 Full(GENIUS_DISCOGRAPHY_TABLE_NAME,
                      TableMetaOf({"artist_genius_id", "song_genius_id"}, {}),
                      [kind |-> "tuple", items |-> <<"artist_genius_id", "song_genius_id">>],
                      RelsOf("genius_id",
                             [t \in {GENIUS_ARTIST_INFO_TABLE_NAME,
                                     GENIUS_SONG_INFO_TABLE_NAME} |->
                                 IF t = GENIUS_ARTIST_INFO_TABLE_NAME
                                 THEN "artist_genius_id" ELSE "song_genius_id"]))).cls

\* the module genius/entities.py after import: the class bound to each name
genius_entities ==
    [GeniusArtistInfo |-> GeniusArtistInfo, GeniusAlbumInfo |-> GeniusAlbumInfo,
     GeniusSongInfo |-> GeniusSongInfo, GeniusDiscographyEntry |-> GeniusDiscographyEntry]

\* SinglePkEntity.get_pk_value: [err, msg, val]
get_pk_value(c, o) == get_field_value(c, o, get_pk_name(c))

\* BaseEntity.get_fk_value_ref_single_pk_entity: [err, msg, val]
get_fk_value_ref_single_pk_entity(c, o, entity_cls) ==
    IF entity_cls.TABLE_NAME \notin DOMAIN get_fk_mapping(c)
    THEN [err |-> "ValueError", msg |-> "No foreign key relationship", val |-> UNSET]
    ELSE IF get_pk_name(entity_cls) \notin DOMAIN get_fk_mapping(c)[entity_cls.TABLE_NAME]
         THEN [err |-> "ValueError", msg |-> "No foreign key relationship", val |-> UNSET]
    ELSE get_field_value(c, o, get_fk_mapping(c)[entity_cls.TABLE_NAME][get_pk_name(entity_cls)])

(***************************************************************************)
(* insert_genius_song_info (database/genius/manager.py).  A store maps     *)
(* each table to its rows; a flow runs on the store the connection sees    *)
(* and yields [err, store, trace]: the exception that ended it ("ok" when  *)
(* it returned), the store it left and the rows it wrote and the checks it *)
(* passed, in order.  entities is the module genius/entities.py: the       *)
(* class bound to each of its names.                                       *)
(***************************************************************************)
\* the row of o in rows, after o was written
Wrote(c, o, rows) ==
    [kind |-> "write", table |-> c.TABLE_NAME,
     data |-> The(Matching(c, rows, validate_fields(c, o).data))]
Checked(table) == [kind |-> "check", table |-> table, data |-> NoData]

Raise(s, err) == [s EXCEPT !.err = err]

\* o.upsert_to_db(cur)
UpsertStep(s, c, o) ==
    IF s.err # "ok" THEN s
    ELSE The({[err |-> r.err,
               store |-> [s.store EXCEPT ![c.TABLE_NAME] = r.rows],
               trace |-> IF r.err = "ok" THEN Append(s.trace, Wrote(c, o, r.rows))
                         ELSE s.trace] :
                  r \in {self_upsert_to_db(c, o, s.store[c.TABLE_NAME], TRUE, FALSE)}})

\* o.insert_to_db(cur)
InsertStep(s, c, o) ==
    IF s.err # "ok" THEN s
    ELSE The({[err |-> r.err,
               store |-> [s.store EXCEPT ![c.TABLE_NAME] = r.rows],
               trace |-> IF r.err = "ok" THEN Append(s.trace, Wrote(c, o, r.rows))
                         ELSE s.trace] :
                  r \in {self_insert_to_db(c, o, s.store[c.TABLE_NAME], TRUE, FALSE, FALSE)}})

\* for feat_artist in featured_artists: feat_artist.upsert_to_db(cur)
RECURSIVE UpsertEach(_, _, _)
UpsertEach(s, c, objs) ==
    IF objs = <<>> \/ s.err # "ok" THEN s
    ELSE The({UpsertEach(x, c, Tail(objs)) : x \in {UpsertStep(s, c, objs[1])}})

\* GeniusArtistInfo.register_discography_entry
GeniusArtistInfo_register_discography_entry(entities, s, artist, song) ==
    IF s.err # "ok" THEN s
    ELSE IF get_pk_value(entities.GeniusArtistInfo, artist).err # "ok"
         THEN Raise(s, get_pk_value(entities.GeniusArtistInfo, artist).err)
    ELSE IF get_pk_value(entities.GeniusSongInfo, song).err # "ok"
         THEN Raise(s, get_pk_value(entities.GeniusSongInfo, song).err)
    ELSE The({IF e.err # "ok" THEN Raise(s, e.err)
              ELSE InsertStep(s, entities.GeniusDiscographyEntry, e.obj) :
                 e \in {BaseEntity_init(FALSE, entities.GeniusDiscographyEntry,
                           [col \in {"artist_genius_id", "song_genius_id"} |->
                               IF col = "artist_genius_id"
                               THEN get_pk_value(entities.GeniusArtistInfo, artist).val
                               ELSE get_pk_value(entities.GeniusSongInfo, song).val])}})

\* genius/manager.py _ensure_discography_entries
RECURSIVE Genius_ensure_discography_entries(_, _, _, _)
Genius_ensure_discography_entries(entities, s, song, artists) ==
    IF artists = <<>> \/ s.err # "ok" THEN s
    ELSE The({Genius_ensure_discography_entries(entities, x, song, Tail(artists)) :
                 x \in {GeniusArtistInfo_register_discography_entry(entities, s, artists[1],
                                                                    song)}})

\* the two tests before album.upsert_to_db
GeniusAlbumChecks(entities, s, song, album, all_artists) ==
    LET album_id == get_pk_value(entities.GeniusAlbumInfo, album)
        song_album ==
            get_fk_value_ref_single_pk_entity(entities.GeniusSongInfo, song,
                                              entities.GeniusAlbumInfo)
        album_artist ==
            get_fk_value_ref_single_pk_entity(entities.GeniusAlbumInfo, album,
                                              entities.GeniusArtistInfo)
        ids == [i \in 1..Len(all_artists) |->
                   get_pk_value(entities.GeniusArtistInfo, all_artists[i])]
    IN IF s.err # "ok" THEN s
       ELSE IF album_id.err # "ok" THEN Raise(s, album_id.err)
       ELSE IF song_album.err # "ok" THEN Raise(s, song_album.err)
       ELSE IF album_id.val # song_album.val THEN Raise(s, "ValueError")
       ELSE IF album_artist.err # "ok" THEN Raise(s, album_artist.err)
       ELSE IF FirstSeqError(ids, LAMBDA r : r.err) # "ok"
            THEN Raise(s, FirstSeqError(ids, LAMBDA r : r.err))
       ELSE IF album_artist.val \notin {ids[i].val : i \in 1..Len(ids)}
            THEN Raise(s, "ValueError")
       ELSE [s EXCEPT !.trace = Append(@, Checked(GENIUS_ALBUM_INFO_TABLE_NAME))]

\* the test before song.upsert_to_db
GeniusSongChecks(entities, s, song, primary_artist) ==
    LET song_artist ==
            get_fk_value_ref_single_pk_entity(entities.GeniusSongInfo, song,
                                              entities.GeniusArtistInfo)
        artist_id == get_pk_value(entities.GeniusArtistInfo, primary_artist)
    IN IF s.err # "ok" THEN s
       ELSE IF song_artist.err # "ok" THEN Raise(s, song_artist.err)
       ELSE IF artist_id.err # "ok" THEN Raise(s, artist_id.err)
       ELSE IF song_artist.val # artist_id.val THEN Raise(s, "ValueError")
       ELSE [s EXCEPT !.trace = Append(@, Checked(GENIUS_SONG_INFO_TABLE_NAME))]

\* insert_genius_song_info whose tests come after the writes
insert_genius_song_info_writes_first(entities, store, song, primary_artist, album, featured_artists) ==
    The({The({The({The({The({The({
        Genius_ensure_discography_entries(entities, s6, song,
                                          <<primary_artist>> \o featured_artists) :
            s6 \in {GeniusSongChecks(entities, s5, song, primary_artist)}}) :
            s5 \in {GeniusAlbumChecks(entities, s4, song, album,
                                      <<primary_artist>> \o featured_artists)}}) :
            s4 \in {UpsertStep(s3, entities.GeniusSongInfo, song)}}) :
            s3 \in {UpsertStep(s2, entities.GeniusAlbumInfo, album)}}) :
            s2 \in {UpsertEach(s1, entities.GeniusArtistInfo, featured_artists)}}) :
            s1 \in {UpsertStep([err |-> "ok", store |-> store, trace |-> <<>>],
                               entities.GeniusArtistInfo, primary_artist)}})

\* insert_genius_song_info(conn, song=, primary_artist=, album=, featured_artists=)
insert_genius_song_info(entities, store, song, primary_artist, album, featured_artists) ==
    The({The({The({The({The({The({
        Genius_ensure_discography_entries(entities, s6, song,
                                          <<primary_artist>> \o featured_artists) :
            s6 \in {UpsertStep(s5, entities.GeniusSongInfo, song)}}) :
            s5 \in {GeniusSongChecks(entities, s4, song, primary_artist)}}) :
            s4 \in {UpsertStep(s3, entities.GeniusAlbumInfo, album)}}) :
            s3 \in {GeniusAlbumChecks(entities, s2, song, album,
                                      <<primary_artist>> \o featured_artists)}}) :
            s2 \in {UpsertEach(s1, entities.GeniusArtistInfo, featured_artists)}}) :
            s1 \in {UpsertStep([err |-> "ok", store |-> store, trace |-> <<>>],
                               entities.GeniusArtistInfo, primary_artist)}})

(***************************************************************************)
(* DbManager (database/manager.py).                                        *)
(*                                                                         *)
(* The database file holds what is committed: version is the row of        *)
(* schema_meta (0 when there is none), tables says whether the entity      *)
(* tables exist, rows is the store.  mgr is the manager the program holds: *)
(*   conn, initialized : self.conn is not None, self.initialized           *)
(*   live   : sqlite3 connections opened and not closed                    *)
(*   file   : the database file                                            *)
(*   tx     : the database as the open connection sees it, uncommitted     *)
(*            changes included (sqlite3.connect(autocommit=False): a       *)
(*            transaction is always open; close() rolls it back)           *)
(*   entities : the module genius/entities.py the program imported         *)
(*   args   : the entity objects the program passes to the insert calls    *)
(*   last   : the last call: its name, the exception it raised, the        *)
(*            manager before it, and for an insert the store the flow left *)
(*            behind and its trace                                         *)
(* genius_manager and spotify_manager are genius/manager.py and            *)
(* spotify/manager.py.                                                     *)
(***************************************************************************)
CURRENT_SCHEMA_VERSION == 2

\* the Genius tables, no row in any
EmptyStore ==
    [t \in {GENIUS_ARTIST_INFO_TABLE_NAME, GENIUS_ALBUM_INFO_TABLE_NAME,
            GENIUS_SONG_INFO_TABLE_NAME, GENIUS_DISCOGRAPHY_TABLE_NAME} |-> {}]

BrandNew == [version |-> 0, tables |-> FALSE, rows |-> EmptyStore]

\* the record of a call on manager m
Called(m, op, err, store, trace) ==
    [op |-> op, err |-> err,
     pre |-> [conn |-> m.conn, initialized |-> m.initialized, live |-> m.live,
              file |-> m.file, tx |-> m.tx],
     store |-> store, trace |-> trace]

\* DbManager._ensure_initialized(conn) on a connection to `file`: [err, file, tx]
_ensure_initialized(file) ==
    IF file.version = 0
    THEN [err |-> "ok",
          file |-> [file EXCEPT !.version = CURRENT_SCHEMA_VERSION, !.tables = TRUE],
          tx |-> [file EXCEPT !.version = CURRENT_SCHEMA_VERSION, !.tables = TRUE]]
    ELSE IF file.version < CURRENT_SCHEMA_VERSION
         THEN [err |-> "NotImplementedError", file |-> file, tx |-> file]
    ELSE IF file.version > CURRENT_SCHEMA_VERSION
         THEN [err |-> "RuntimeError", file |-> file, tx |-> file]
    ELSE [err |-> "ok", file |-> file, tx |-> file]

\* DbManager.open that keeps the connection whatever _ensure_initialized does
DbManager_open_unchecked(m) ==
    IF m.conn THEN [m EXCEPT !.last = Called(m, "open", "ok", EmptyStore, <<>>)]
    ELSE The({[m EXCEPT !.conn = TRUE, !.initialized = (r.err = "ok" \/ m.initialized),
                        !.live = @ + 1,
                        !.file = r.file, !.tx = r.tx,
                        !.last = Called(m, "open", r.err, EmptyStore, <<>>)] :
                 r \in {_ensure_initialized(m.file)}})

\* DbManager.open
DbManager_open(m) ==
    IF m.conn THEN [m EXCEPT !.last = Called(m, "open", "ok", EmptyStore, <<>>)]
    ELSE IF m.initialized
         THEN [m EXCEPT !.conn = TRUE, !.live = @ + 1, !.tx = m.file,
                        !.last = Called(m, "open", "ok", EmptyStore, <<>>)]
    ELSE The({IF r.err # "ok"
              THEN [m EXCEPT !.last = Called(m, "open", r.err, EmptyStore, <<>>)]
              ELSE [m EXCEPT !.conn = TRUE, !.initialized = TRUE, !.live = @ + 1,
                             !.file = r.file, !.tx = r.tx,
                             !.last = Called(m, "open", "ok", EmptyStore, <<>>)] :
                 r \in {_ensure_initialized(m.file)}})

\* DbManager.close
DbManager_close(m) ==
    IF ~m.conn THEN [m EXCEPT !.last = Called(m, "close", "ok", EmptyStore, <<>>)]
    ELSE [m EXCEPT !.conn = FALSE, !.live = @ - 1, !.tx = m.file,
                   !.last = Called(m, "close", "ok", EmptyStore, <<>>)]

\* DbManager.transaction without the rollback
DbManager_transaction_no_rollback(m, op, flow) ==
    IF ~m.conn THEN [m EXCEPT !.last = Called(m, op, "RuntimeError", m.tx.rows, <<>>)]
    ELSE IF flow.err # "ok"
         THEN [m EXCEPT !.tx.rows = flow.store,
                        !.last = Called(m, op, flow.err, flow.store, flow.trace)]
    ELSE [m EXCEPT !.tx.rows = flow.store, !.file = [m.tx EXCEPT !.rows = flow.store],
                   !.last = Called(m, op, "ok", flow.store, flow.trace)]

\* with self.transaction() as conn: <body>, flow being the outcome of the
\* body on the store the connection sees
DbManager_transaction(m, op, flow) ==
    IF ~m.conn THEN [m EXCEPT !.last = Called(m, op, "RuntimeError", m.tx.rows, <<>>)]
    ELSE IF flow.err # "ok"
         THEN [m EXCEPT !.tx = m.file,
                        !.last = Called(m, op, flow.err, flow.store, flow.trace)]
    ELSE [m EXCEPT !.tx.rows = flow.store, !.file = [m.tx EXCEPT !.rows = flow.store],
                   !.last = Called(m, op, "ok", flow.store, flow.trace)]

\* DbManager.insert_song_genius_data
insert_song_genius_data(m, song, primary_artist, album, featured_artists) ==
    The({DbManager_transaction(m, "insert_song_genius_data", flow) :
            flow \in {IF m.conn
                      THEN insert_genius_song_info(m.entities, m.tx.rows, song,
                                                   primary_artist, album, featured_artists)
                      ELSE [err |-> "ok", store |-> m.tx.rows, trace |-> <<>>]}})

\* DbManager.insert_song_spotify_data: spotify/manager.py defines insert_song
\* and no insert_spotify_song, so the body raises AttributeError
insert_song_spotify_data(m) ==
    DbManager_transaction(m, "insert_song_spotify_data",
                          [err |-> IF "insert_spotify_song" \in {"insert_song"}
                                   THEN "ok" ELSE "AttributeError",
                           store |-> m.tx.rows, trace |-> <<>>])

\* the objects a program holds: Genius artists 1 and 2, albums and a song
\* that name them; unsets lists the sets of text columns an object may leave
\* unset
GeniusObjects(c, ids, refs, unsets) ==
    {r.obj : r \in {x \in {BaseEntity_init(FALSE, c,
                              [col \in DOMAIN c.TABLE_META.cols |->
                                  IF col = "genius_id" THEN IntV(id)
                                  ELSE IF col \in DOMAIN refs THEN IntV(refs[col])
                                  ELSE IF col \in unset THEN UNSET
                                  ELSE StrV(1)]) :
                              id \in ids, unset \in unsets} : x.err = "ok"}}

GeniusArtists(entities) ==
    GeniusObjects(entities.GeniusArtistInfo, {1, 2}, <<>>,
                  {{}, {"name"}, {"name", "genius_url"}})

GeniusAlbums(entities) ==
    UNION {GeniusObjects(entities.GeniusAlbumInfo, {1, 2},
                         [col \in {"primary_artist_genius_id"} |-> a],
                         {{}, {"title"}}) : a \in {1, 2}}

GeniusSongs(entities) ==
    UNION {GeniusObjects(entities.GeniusSongInfo, {1},
                         [col \in {"primary_artist_genius_id", "album_genius_id"} |->
                             IF col = "album_genius_id" THEN b ELSE a],
                         {{}, {"title"}}) :
              a \in {1, 2}, b \in {1, 2}}

GeniusArgs(entities) ==
    [song : GeniusSongs(entities), primary_artist : GeniusArtists(entities),
     album : GeniusAlbums(entities),
     featured_artists : {<<>>} \cup {<<a>> : a \in GeniusArtists(entities)}]

\* the store of an earlier run: artist 1 under another name
Seeded ==
    [EmptyStore EXCEPT ![GENIUS_ARTIST_INFO_TABLE_NAME] =
        {[col \in {"genius_id", "name", "genius_url"} |->
             IF col = "genius_id" THEN IntV(1) ELSE StrV(2)]}]

\* a database file this program or another version of it wrote, or none
Files ==
    {BrandNew, [version |-> CURRENT_SCHEMA_VERSION, tables |-> TRUE, rows |-> Seeded]} \cup
    {[version |-> v, tables |-> TRUE, rows |-> EmptyStore] :
        v \in 1..(CURRENT_SCHEMA_VERSION + 1)}

\* manager = DbManager(path)
InitManager ==
    /\ cls = NoClass
    /\ res = Res("start", "", EmptyBody, "", "", "ok")
    /\ obj = NoObj
    /\ db = {}
    /\ call = NoCall
    /\ \E entities \in {genius_entities} :
       \E file \in Files, args \in GeniusArgs(entities) :
          mgr = [exists |-> TRUE, conn |-> FALSE, initialized |-> FALSE, live |-> 0,
                 file |-> file, tx |-> file, entities |-> entities, args |-> args,
                 last |-> Called([conn |-> FALSE, initialized |-> FALSE, live |-> 0,
                                  file |-> file, tx |-> file],
                                 "", "ok", EmptyStore, <<>>)]

Open ==
    /\ mgr' = DbManager_open(mgr)
    /\ UNCHANGED <<cls, res, obj, db, call>>

Close ==
    /\ mgr' = DbManager_close(mgr)
    /\ UNCHANGED <<cls, res, obj, db, call>>

InsertSongGeniusData ==
    /\ mgr' = insert_song_genius_data(mgr, mgr.args.song, mgr.args.primary_artist,
                                      mgr.args.album, mgr.args.featured_artists)
    /\ UNCHANGED <<cls, res, obj, db, call>>

InsertSongSpotifyData ==
    /\ mgr' = insert_song_spotify_data(mgr)
    /\ UNCHANGED <<cls, res, obj, db, call>>

NextManager == Open \/ Close \/ InsertSongGeniusData \/ InsertSongSpotifyData

SpecManager == InitManager /\ [][NextManager]_vars

(***************************************************************************)
(* The Spotify entity types (database/spotify/tables.py, entities.py) and  *)
(* insert_song (database/spotify/manager.py).  Of each table the model     *)
(* keeps the key columns, the foreign-key columns and one required text    *)
(* column.  Album, Artist and Song are the classes their class statements  *)
(* build before SpotifyEntity.__init_subclass__ rebinds                    *)
(* SPOTIFY_ENTITY_NAME: with that assignment as written no such class      *)
(* exists (SpotifySubclass), and insert_song has nothing to run on.        *)
(***************************************************************************)
\* a TABLE_META of non-nullable str columns strs, and a nullable int
\* genius_id when genius is true
SpotifyMetaOf(strs, genius) ==
    [kind |-> "dict",
     cols |-> [c \in strs \cup (IF genius THEN {"genius_id"} ELSE {}) |->
                  IF c \in strs THEN [py_type |-> "str", nullable |-> FALSE]
                  ELSE [py_type |-> "int", nullable |-> TRUE]]]

\* a FOREIGN_KEYS {table: {ref_col: fk_col}} of the triples <<table, ref_col, fk_col>>
RelsFrom(triples) ==
    [kind |-> "dict",
     rels |-> [t \in {x[1] : x \in triples} |->
                  The({[r \in {x[2]} |-> x[3]] : x \in {y \in triples : y[1] = t}})]]

Artist ==
    The({ClassStatement(FALSE, base,
                        Full("artists", SpotifyMetaOf({"artist_id", "name"}, TRUE),
                             [kind |-> "tuple", items |-> <<"artist_id">>],
                             RelsFrom({<<GENIUS_ARTIST_INFO_TABLE_NAME, "genius_id",
                                         "genius_id">>})),
                        "").cls : base \in {SpotifyEntity[FALSE].cls}})

Album ==
    The({ClassStatement(FALSE, base,
                        Full("albums",
                             SpotifyMetaOf({"album_id", "title", "primary_artist_id"}, TRUE),
                             [kind |-> "tuple", items |-> <<"album_id">>],
                             RelsFrom({<<GENIUS_ALBUM_INFO_TABLE_NAME, "genius_id",
                                         "genius_id">>,
                                       <<"artists", "artist_id", "primary_artist_id">>})),
                        "").cls : base \in {SpotifyEntity[FALSE].cls}})

Song ==
    The({ClassStatement(FALSE, base,
                        Full("songs",
                             SpotifyMetaOf({"track_id", "title", "primary_artist_id",
                                            "album_id"}, TRUE),
                             [kind |-> "tuple", items |-> <<"track_id">>],
                             RelsFrom({<<GENIUS_SONG_INFO_TABLE_NAME, "genius_id",
                                         "genius_id">>,
                                       <<"artists", "artist_id", "primary_artist_id">>,
                                       <<"albums", "album_id", "album_id">>})),
                        "").cls : base \in {SpotifyEntity[FALSE].cls}})

DiscographyEntry ==
    DeclareUnder(FALSE, "BinaryAssociationEntity",
                 Full("discography", SpotifyMetaOf({"artist_id", "track_id"}, FALSE),
                      [kind |-> "tuple", items |-> <<"artist_id", "track_id">>],
                      RelsFrom({<<"artists", "artist_id", "artist_id">>,
                                <<"songs", "track_id", "track_id">>}))).cls

ArtistImage ==
    DeclareUnder(FALSE, "DependentRowEntity",
                 Full("artist_images", SpotifyMetaOf({"artist_id", "url"}, FALSE),
                      [kind |-> "tuple", items |-> <<"artist_id", "url">>],
                      RelsFrom({<<"artists", "artist_id", "artist_id">>}))).cls

AlbumImage ==
    DeclareUnder(FALSE, "DependentRowEntity",
                 Full("album_images", SpotifyMetaOf({"album_id", "url"}, FALSE),
                      [kind |-> "tuple", items |-> <<"album_id", "url">>],
                      RelsFrom({<<"albums", "album_id", "album_id">>}))).cls

\* the module spotify/entities.py after import: the class bound to each name
spotify_entities ==
    [Artist |-> Artist, ArtistImage |-> ArtistImage, Album |-> Album,
     AlbumImage |-> AlbumImage, Song |-> Song, DiscographyEntry |-> DiscographyEntry]

\* Artist.register_image and Album.register_image: owner_cls is the class of
\* self, image_cls that of the image
register_image(s, owner_cls, image_cls, owner, image) ==
    LET own_id == get_pk_value(owner_cls, owner)
        ref_id == get_fk_value_ref_single_pk_entity(image_cls, image, owner_cls)
    IN IF s.err # "ok" THEN s
       ELSE IF own_id.err # "ok" THEN Raise(s, own_id.err)
       ELSE IF ref_id.err # "ok" THEN Raise(s, ref_id.err)
       ELSE IF own_id.val # ref_id.val THEN Raise(s, "ValueError")
       ELSE UpsertStep(s, image_cls, image)

\* for image in images: owner.register_image(cur, image)
RECURSIVE RegisterEach(_, _, _, _, _)
RegisterEach(s, owner_cls, image_cls, owner, images) ==
    IF images = <<>> \/ s.err # "ok" THEN s
    ELSE The({RegisterEach(x, owner_cls, image_cls, owner, Tail(images)) :
                 x \in {register_image(s, owner_cls, image_cls, owner, images[1])}})

\* artist.upsert_to_db(cur) and the registration of its images, for each
\* <<artist, images>> of artists
RECURSIVE UpsertArtists(_, _, _)
UpsertArtists(entities, s, artists) ==
    IF artists = <<>> \/ s.err # "ok" THEN s
    ELSE The({The({UpsertArtists(entities, y, Tail(artists)) :
                      y \in {RegisterEach(x, entities.Artist, entities.ArtistImage,
                                          artists[1][1], artists[1][2])}}) :
                 x \in {UpsertStep(s, entities.Artist, artists[1][1])}})

\* Artist.register_discography_entry
Artist_register_discography_entry(entities, s, artist, song) ==
    IF s.err # "ok" THEN s
    ELSE IF get_pk_value(entities.Artist, artist).err # "ok"
         THEN Raise(s, get_pk_value(entities.Artist, artist).err)
    ELSE IF get_pk_value(entities.Song, song).err # "ok"
         THEN Raise(s, get_pk_value(entities.Song, song).err)
    ELSE The({IF e.err # "ok" THEN Raise(s, e.err)
              ELSE InsertStep(s, entities.DiscographyEntry, e.obj) :
                 e \in {BaseEntity_init(FALSE, entities.DiscographyEntry,
                           [col \in {"artist_id", "track_id"} |->
                               IF col = "artist_id"
                               THEN get_pk_value(entities.Artist, artist).val
                               ELSE get_pk_value(entities.Song, song).val])}})

\* spotify/manager.py _ensure_discography_entries
RECURSIVE Spotify_ensure_discography_entries(_, _, _, _)
Spotify_ensure_discography_entries(entities, s, song, artists) ==
    IF artists = <<>> \/ s.err # "ok" THEN s
    ELSE The({Spotify_ensure_discography_entries(entities, x, song, Tail(artists)) :
                 x \in {Artist_register_discography_entry(entities, s, artists[1], song)}})

\* the two tests before album_obj.upsert_to_db
SpotifyAlbumChecks(entities, s, song, album_obj, all_artists) ==
    LET album_id == get_pk_value(entities.Album, album_obj)
        song_album ==
            get_fk_value_ref_single_pk_entity(entities.Song, song, entities.Album)
        album_artist ==
            get_fk_value_ref_single_pk_entity(entities.Album, album_obj, entities.Artist)
        ids == [i \in 1..Len(all_artists) |-> get_pk_value(entities.Artist, all_artists[i])]
    IN IF s.err # "ok" THEN s
       ELSE IF album_id.err # "ok" THEN Raise(s, album_id.err)
       ELSE IF song_album.err # "ok" THEN Raise(s, song_album.err)
       ELSE IF album_id.val # song_album.val THEN Raise(s, "ValueError")
       ELSE IF album_artist.err # "ok" THEN Raise(s, album_artist.err)
       ELSE IF FirstSeqError(ids, LAMBDA r : r.err) # "ok"
            THEN Raise(s, FirstSeqError(ids, LAMBDA r : r.err))
       ELSE IF album_artist.val \notin {ids[i].val : i \in 1..Len(ids)}
            THEN Raise(s, "ValueError")
       ELSE [s EXCEPT !.trace = Append(@, Checked(entities.Album.TABLE_NAME))]

\* the test before song.upsert_to_db
SpotifySongChecks(entities, s, song, primary_artist_obj) ==
    LET song_artist ==
            get_fk_value_ref_single_pk_entity(entities.Song, song, entities.Artist)
        artist_id == get_pk_value(entities.Artist, primary_artist_obj)
    IN IF s.err # "ok" THEN s
       ELSE IF song_artist.err # "ok" THEN Raise(s, song_artist.err)
       ELSE IF artist_id.err # "ok" THEN Raise(s, artist_id.err)
       ELSE IF song_artist.val # artist_id.val THEN Raise(s, "ValueError")
       ELSE [s EXCEPT !.trace = Append(@, Checked(entities.Song.TABLE_NAME))]

\* insert_song(conn, song=, primary_artist=, album=, featured_artists=);
\* primary_artist and album are <<object, images>>, featured_artists a list
\* of <<artist, images>>
insert_song(entities, store, song, primary_artist, album, featured_artists) ==
    LET all_artists ==
            [i \in 1..(1 + Len(featured_artists)) |->
                IF i = 1 THEN primary_artist[1] ELSE featured_artists[i - 1][1]]
    IN The({The({The({The({The({The({
        Spotify_ensure_discography_entries(entities, s6, song, all_artists) :
            s6 \in {UpsertStep(s5, entities.Song, song)}}) :
            s5 \in {SpotifySongChecks(entities, s4, song, primary_artist[1])}}) :
            s4 \in {RegisterEach(s3, entities.Album, entities.AlbumImage,
                                 album[1], album[2])}}) :
            s3 \in {UpsertStep(s2, entities.Album, album[1])}}) :
            s2 \in {SpotifyAlbumChecks(entities, s1, song, album[1], all_artists)}}) :
            s1 \in {UpsertArtists(entities,
                                  [err |-> "ok", store |-> store, trace |-> <<>>],
                                  <<primary_artist>> \o featured_artists)}})

\* the Spotify objects a program holds: ids is the set of values of the first
\* key column, refs the values of the other key and foreign-key columns,
\* unsets the sets of columns an object may leave unset
SpotifyObjects(c, ids, refs, unsets) ==
    {r.obj : r \in {x \in {BaseEntity_init(FALSE, c,
                              [col \in DOMAIN c.TABLE_META.cols |->
                                  IF col \in unset THEN UNSET
                                  ELSE IF col = get_pk_name(c) THEN StrV(id)
                                  ELSE IF col \in DOMAIN refs THEN StrV(refs[col])
                                  ELSE IF col = "genius_id" THEN IntV(1)
                                  ELSE StrV(1)]) :
                              id \in ids, unset \in unsets} : x.err = "ok"}}

\* an object with no image, with an image of its own, or with an image of
\* the other object
WithImages(owners, image_cls) ==
    {<<o, images>> :
        o \in owners,
        images \in {<<>>} \cup {<<im>> : im \in SpotifyObjects(image_cls, {1, 2}, <<>>, {{}})}}

SpotifyArgs(entities) ==
    [song :
        UNION {SpotifyObjects(entities.Song, {1},
                              [col \in {"primary_artist_id", "album_id"} |->
                                  IF col = "album_id" THEN b ELSE a],
                              {{}, {"title", "genius_id"}}) : a \in {1, 2}, b \in {1, 2}},
     primary_artist :
        WithImages(SpotifyObjects(entities.Artist, {1, 2}, <<>>, {{}, {"name", "genius_id"}}),
                   entities.ArtistImage),
     album :
        WithImages(UNION {SpotifyObjects(entities.Album, {1, 2},
                                         [col \in {"primary_artist_id"} |-> a],
                                         {{}, {"title", "genius_id"}}) : a \in {1, 2}},
                   entities.AlbumImage),
     featured_artists :
        {<<>>} \cup
        {<<a>> : a \in WithImages(SpotifyObjects(entities.Artist, {1, 2}, <<>>, {{}}),
                                  entities.ArtistImage)}]

(***************************************************************************)
(* The two insert flows on the store of an open connection.  mgr.module    *)
(* is the manager module the program imported ("genius" or "spotify"),     *)
(* mgr.entities its entity classes, mgr.args the arguments of the call,    *)
(* mgr.given the rows the arguments stand for (table and fields), and      *)
(* mgr.last the outcome of the call: [op, err, store, trace].              *)
(***************************************************************************)
\* the table and the fields of the song, the album and the artists of a call
Given(song_cls, album_cls, artist_cls, song, album, artists) ==
    {[table |-> song_cls.TABLE_NAME, fields |-> song.fields],
     [table |-> album_cls.TABLE_NAME, fields |-> album.fields]} \cup
    {[table |-> artist_cls.TABLE_NAME, fields |-> artists[i].fields] :
        i \in 1..Len(artists)}

InitFlows ==
    /\ cls = NoClass
    /\ res = Res("start", "", EmptyBody, "", "", "ok")
    /\ obj = NoObj
    /\ db = {}
    /\ call = NoCall
    /\ \/ \E entities \in {genius_entities} : \E args \in GeniusArgs(entities) :
             mgr = [exists |-> TRUE, module |-> "genius", entities |-> entities,
                    args |-> args,
                    given |-> Given(entities.GeniusSongInfo, entities.GeniusAlbumInfo,
                                    entities.GeniusArtistInfo, args.song, args.album,
                                    <<args.primary_artist>> \o args.featured_artists),
                    last |-> [op |-> "", err |-> "ok", trace |-> <<>>]]
       \/ \E entities \in {spotify_entities} : \E args \in SpotifyArgs(entities) :
             mgr = [exists |-> TRUE, module |-> "spotify", entities |-> entities,
                    args |-> args,
                    given |-> Given(entities.Song, entities.Album, entities.Artist,
                                    args.song, args.album[1],
                                    [i \in 1..(1 + Len(args.featured_artists)) |->
                                        IF i = 1 THEN args.primary_artist[1]
                                        ELSE args.featured_artists[i - 1][1]]),
                    last |-> [op |-> "", err |-> "ok", trace |-> <<>>]]

\* genius_manager.insert_genius_song_info(conn, ...) on an empty store
InsertGeniusSongInfo ==
    /\ mgr.module = "genius" /\ mgr.last.op = ""
    /\ \E r \in {insert_genius_song_info(mgr.entities, EmptyStore, mgr.args.song,
                                         mgr.args.primary_artist, mgr.args.album,
                                         mgr.args.featured_artists)} :
          mgr' = [mgr EXCEPT !.last = [op |-> "insert_genius_song_info", err |-> r.err,
                                       trace |-> r.trace]]
    /\ UNCHANGED <<cls, res, obj, db, call>>

\* spotify_manager.insert_song(conn, ...) on an empty store
InsertSong ==
    /\ mgr.module = "spotify" /\ mgr.last.op = ""
    /\ \E r \in {insert_song(mgr.entities,
                             [t \in {mgr.entities[n].TABLE_NAME : n \in DOMAIN mgr.entities}
                                 |-> {}],
                             mgr.args.song, mgr.args.primary_artist, mgr.args.album,
                             mgr.args.featured_artists)} :
          mgr' = [mgr EXCEPT !.last = [op |-> "insert_song", err |-> r.err,
                                       trace |-> r.trace]]
    /\ UNCHANGED <<cls, res, obj, db, call>>

NextFlows == InsertGeniusSongInfo \/ InsertSong

SpecFlows == InitFlows /\ [][NextFlows]_vars

(***************************************************************************)
(* Properties.                                                             *)
(***************************************************************************)
\* the last operation was a class statement of the program
Declared == res.op \in {"declare", "subclass"}

\* a body that supplies some but not all of the four configs
Partial(body) == body.own # {} /\ body.own # _BASE_FREEZE_KEYS

\* a type the program declared with all four configs and that holds the flag
RegisteredConcrete(c) ==
    c.exists /\ c.user /\ c.concrete /\ c.own = _BASE_FREEZE_KEYS

PkSet(c) == SeqRange(get_pk_names(c))

\* the local columns of all foreign-key relationships
AllFkCols(c) == UNION {FkCols(get_fk_mapping(c)[t]) : t \in DOMAIN get_fk_mapping(c)}

C2_NoneYieldsAbstract ==
    (res.op = "declare" /\ res.body = EmptyBody)
        => /\ res.err = "ok"
           /\ cls.exists
           /\ is_concrete_entity(TRUE, cls) = [err |-> "ok", val |-> FALSE]
           /\ BaseEntity_new(TRUE, cls) = "TypeError"

\* the names C3 lists
C3Names ==
    {"TABLE_META", "PRIMARY_KEYS", "FOREIGN_KEYS", "TABLE_NAME",
     _DERIVED_FREEZE_KEYS_ATTR, _DERIVED_SLOTS_SOURCE_NAME_ATTR, "__slots__"}

C6_SinglePk ==
    (RegisteredConcrete(cls) /\ cls.root = "SinglePkEntity")
        => /\ Len(get_pk_names(cls)) = 1
           /\ PkSet(cls) = {get_pk_name(cls)}
           /\ (Declared /\ res.err = "ok")
                 => res.body.PRIMARY_KEYS.items = <<get_pk_name(cls)>>

\* a SinglePkEntity type registered from a list, and asked again after a
\* refused assignment
C6_Witness ==
    /\ RegisteredConcrete(cls)
    /\ cls.root = "SinglePkEntity"
    /\ get_pk_name(cls) = "id"
    /\ res.op = "setattr"
    /\ res.name = "PRIMARY_KEYS"

DependentRoots == {"DependentEntity", "DependentRowEntity", "ExtensionEntity"}

\* the body declares exactly one relationship whose local columns are all
\* primary-key columns
OneRelInsidePk(rels, items) ==
    /\ Cardinality(DOMAIN rels) = 1
    /\ FkCols(FirstRel(rels)) \subseteq SeqRange(items)

\* C7: a concrete DependentEntity type is registered only with exactly one
\* foreign-key relationship whose local columns are a subset of the primary-key
\* columns; a class statement with all four configs that declares anything else
\* raises.
C7_Dependent ==
    /\ (RegisteredConcrete(cls) /\ cls.root \in DependentRoots)
          => OneRelInsidePk(get_fk_mapping(cls), get_pk_names(cls))
    /\ (Declared /\ res.root \in DependentRoots /\ res.body.own = _BASE_FREEZE_KEYS
          /\ ~OneRelInsidePk(res.body.FOREIGN_KEYS.rels, res.body.PRIMARY_KEYS.items))
          => res.err # "ok"

\* a DependentEntity type with a two-column key and one relationship on one of
\* them is registered
C7_Witness ==
    /\ res.op = "declare"
    /\ res.err = "ok"
    /\ RegisteredConcrete(cls)
    /\ cls.root = "DependentEntity"
    /\ Len(get_pk_names(cls)) = 2
    /\ FkCols(FirstRel(get_fk_mapping(cls))) = {"pid"}

\* C8: a concrete DependentRowEntity type is registered only when its FK
\* columns are a proper subset of its primary-key columns; a class statement
\* with all four configs whose FK columns equal the PK columns raises.
C8_DependentRow ==
    /\ (RegisteredConcrete(cls) /\ cls.root = "DependentRowEntity")
          => /\ OneRelInsidePk(get_fk_mapping(cls), get_pk_names(cls))
             /\ FkCols(FirstRel(get_fk_mapping(cls))) # PkSet(cls)
             /\ PkSet(cls) \ FkCols(FirstRel(get_fk_mapping(cls))) # {}
    /\ (Declared /\ res.root = "DependentRowEntity" /\ res.body.own = _BASE_FREEZE_KEYS
          /\ Cardinality(DOMAIN res.body.FOREIGN_KEYS.rels) = 1
          /\ FkCols(FirstRel(res.body.FOREIGN_KEYS.rels))
                = SeqRange(res.body.PRIMARY_KEYS.items))
          => res.err # "ok"

\* a DependentRowEntity type whose key has one own column is registered
C8_Witness ==
    /\ res.op = "declare"
    /\ res.err = "ok"
    /\ RegisteredConcrete(cls)
    /\ cls.root = "DependentRowEntity"
    /\ PkSet(cls) \ FkCols(FirstRel(get_fk_mapping(cls))) = {"pid"}

\* a body over non-nullable columns id and pid with a non-empty primary key
\* and one relationship on declared columns
OtherwiseValid(body) ==
    /\ body.own = _BASE_FREEZE_KEYS
    /\ body.knobs = "none" /\ ~body.injected /\ body.extra = <<>>
    /\ body.TABLE_NAME = "songs"
    /\ body.TABLE_META = GoodMeta
    /\ body.PRIMARY_KEYS \in CorePks /\ body.PRIMARY_KEYS.items # <<>>
    /\ body.FOREIGN_KEYS \in CoreFks
    /\ Cardinality(DOMAIN body.FOREIGN_KEYS.rels) = 1

\* C9: with otherwise valid metadata and one relationship, a class statement
\* below ExtensionEntity registers a concrete type if and only if the FK
\* columns equal the primary-key columns: PK {id} with FK column pid fails,
\* PK {id} with FK column id succeeds.
C9_Extension ==
    (res.op = "declare" /\ res.root = "ExtensionEntity" /\ OtherwiseValid(res.body))
        => ((res.err = "ok" /\ cls.exists /\ cls.concrete)
              <=> FkCols(FirstRel(res.body.FOREIGN_KEYS.rels))
                    = SeqRange(res.body.PRIMARY_KEYS.items))

MeetsContract(f_meta, value) ==
    value.ty = f_meta.py_type \/ (value = None /\ f_meta.nullable)

\* C13: get_field_value decides in this order: a name that is no column raises
\* the unknown-field ValueError; else an unset primary-key column raises the
\* not-set ValueError; else a stored value that violates the column's contract
\* raises TypeError; else the stored value is returned (None for a nullable
\* column holding None, the sentinel for an unset non-key column).  The
\* instance is never modified.
C13_GetFieldOrder ==
    [][call'.op = "get_field_value" =>
        /\ obj' = obj
        /\ IF call'.name \notin DOMAIN cls.TABLE_META.cols
           THEN call'.err = "ValueError" /\ call'.msg = "not a valid field"
           ELSE IF call'.name \in PkSet(cls) /\ obj.fields[call'.name] = UNSET
                THEN call'.err = "ValueError" /\ call'.msg = "is not set"
           ELSE IF /\ obj.fields[call'.name] # UNSET
                   /\ ~MeetsContract(cls.TABLE_META.cols[call'.name],
                                     obj.fields[call'.name])
                THEN call'.err = "TypeError"
           ELSE call'.err = "ok" /\ call'.ret = obj.fields[call'.name]]_vars

\* get_field_value found a primary-key column holding a value of the wrong type
C13_Witness ==
    /\ call.op = "get_field_value"
    /\ call.err = "TypeError"
    /\ call.name \in PkSet(cls)
    /\ obj.fields[call.name] = None

\* C14: set_field_value raises the unknown-field ValueError for a name that is
\* no column, the cannot-be-unset ValueError for the sentinel on a primary-key
\* column, TypeError for a value outside the column's contract (None only for
\* a nullable column), and otherwise stores the value.  When it raises the
\* instance is unchanged; when it succeeds only the named field changes.
C14_SetFieldChecked ==
    [][call'.op = "set_field_value" =>
        IF call'.name \notin DOMAIN cls.TABLE_META.cols
        THEN call'.err = "ValueError" /\ call'.msg = "not a valid field" /\ obj' = obj
        ELSE IF call'.name \in PkSet(cls) /\ call'.value = UNSET
             THEN /\ call'.err = "ValueError"
                  /\ call'.msg = "cannot be set to UNSET"
                  /\ obj' = obj
        ELSE IF /\ call'.value # UNSET
                /\ ~MeetsContract(cls.TABLE_META.cols[call'.name], call'.value)
             THEN call'.err = "TypeError" /\ obj' = obj
        ELSE /\ call'.err = "ok"
             /\ obj' = [obj EXCEPT !.fields[call'.name] = call'.value]]_vars

\* set_field_value stored None in the nullable column of an instance that only
\* the accessor has written
C14_Witness ==
    /\ call.op = "set_field_value"
    /\ call.err = "ok"
    /\ call.name = "name"
    /\ call.value = None
    /\ obj.fields["name"] = None
    /\ ~obj.raw

\* C15: an instance that was constructed and then written only through
\* set_field_value holds, in every primary-key column, a value that is not the
\* sentinel and meets the column's contract; and the constructor raises,
\* leaving no instance, when a primary-key column is absent from the initial
\* map or maps to the sentinel.
C15_KeysAlwaysSet ==
    /\ (obj.exists /\ ~obj.raw) =>
          \A k \in PkSet(cls) :
              /\ obj.fields[k] # UNSET
              /\ MeetsContract(cls.TABLE_META.cols[k], obj.fields[k])
    /\ (call.op = "__init__" /\
           \E k \in PkSet(cls) : k \notin DOMAIN call.data \/ call.data[k] = UNSET) =>
          (call.err # "ok" /\ ~obj.exists)

\* set_field_value refused to unset a primary-key column of an instance that
\* only the accessor has written
C15_Witness ==
    /\ obj.exists
    /\ ~obj.raw
    /\ call.op = "set_field_value"
    /\ call.name \in PkSet(cls)
    /\ call.value = UNSET
    /\ call.err = "ValueError"

\* get_field_value is called right after the constructor succeeded, with a key
\* of the constructor's map
ReadBack == call.op = "__init__" /\ obj.exists /\ call'.op = "get_field_value"
                /\ call'.name \in DOMAIN call.data

IsAssociation == cls.root = "BinaryAssociationEntity"

\* the rows of the store that carry the key of instance o
SameKey(rows, o) == {r \in rows : \A k \in PkSet(cls) : r[k] = o.fields[k]}

\* the columns that are set on instance o
SetCols(o) == {col \in DOMAIN o.fields : o.fields[col] # UNSET}

\* the row an instance stands for: its set columns, NULL elsewhere
RowFor(o) == [col \in DOMAIN o.fields |-> IF col \in SetCols(o) THEN o.fields[col] ELSE None]

\* C11: for an instance of an association type, in every state of the instance
\* and of the store and whatever handle and mode are passed, update_fields_db
\* and upsert_to_db raise NotImplementedError, execute no statement and leave
\* the store unchanged.
C11_AssociationImmutable ==
    [][(IsAssociation /\ call'.op \in {"update_fields_db", "upsert_to_db"}) =>
        /\ call'.err = "NotImplementedError"
        /\ call'.stmts = <<>>
        /\ db' = db]_vars

\* upsert_to_db was refused on an association instance whose row is in the store
C11_Witness ==
    /\ IsAssociation
    /\ call.op = "upsert_to_db"
    /\ call.cur /\ ~call.simulate
    /\ call.err = "NotImplementedError"
    /\ SameKey(db, obj) # {}

\* C12: insert_to_db of an association instance through a handle, whatever
\* on_conflict the caller passes, raises nothing; it adds the instance's row
\* when the store has no row with its key pair and leaves the store as it is
\* when it has one.  So of two calls with the same key pair the first adds the
\* row and the second is a no-op.
C12_AssociationInsertIdempotent ==
    [][(IsAssociation /\ call'.op = "insert_to_db" /\ call'.cur /\ ~call'.simulate) =>
        /\ call'.err = "ok"
        /\ db' = IF SameKey(db, obj) = {} THEN db \cup {RowFor(obj)} ELSE db
        /\ SameKey(db', obj) # {}]_vars

\* the caller passed on_conflict = False and the insert found the key pair in
\* the store: no error, no row affected
C12_Witness ==
    /\ IsAssociation
    /\ call.op = "insert_to_db"
    /\ call.cur /\ ~call.simulate
    /\ ~call.on_conflict
    /\ call.err = "ok"
    /\ Len(call.stmts) = 1
    /\ call.stmts[1].rowcount = 0
    /\ SameKey(db, obj) # {}

\* the call was made through a handle: a cursor, and no dry run
Live(c) == c.cur /\ ~c.simulate

\* the non-nullable columns of the type
Required == {col \in DOMAIN cls.TABLE_META.cols : ~cls.TABLE_META.cols[col].nullable}

\* the non-key columns that are set on instance o
SetNonKey(o) == SetCols(o) \ PkSet(cls)

\* C17: insert_to_db through a handle raises the missing-required-fields
\* ValueError, with no statement executed and the store unchanged, whenever a
\* non-nullable column is unset on the instance; otherwise it executes one
\* INSERT whose column list is exactly the columns set on the instance.
C17_InsertRequiresNonNullable ==
    [][(call'.op = "insert_to_db" /\ Live(call')) =>
        IF Required \ SetCols(obj) # {}
        THEN /\ call'.err = "ValueError"
             /\ call'.msg = "missing required fields"
             /\ call'.stmts = <<>>
             /\ db' = db
        ELSE /\ Len(call'.stmts) = 1
             /\ call'.stmts[1].kind = "INSERT"
             /\ call'.stmts[1].cols = SetCols(obj)]_vars

\* an INSERT that lists the key and the required column and leaves out the
\* unset nullable column
C17_Witness ==
    /\ call.op = "insert_to_db"
    /\ Live(call)
    /\ call.err = "ok"
    /\ obj.fields["name"] = UNSET
    /\ Len(call.stmts) = 1
    /\ call.stmts[1].cols = {"id", "pid"}
    /\ call.stmts[1].rowcount = 1

\* C18: update_fields_db, called with a handle or as a dry run on an instance
\* of a type that has the operation and whose only set columns are primary-key
\* columns, returns False without executing an UPDATE and leaves the store
\* unchanged, whether or not the store has a row with the instance's key.
C18_PatchKeyOnlyNoOp ==
    [][(/\ call'.op = "update_fields_db"
        /\ ~IsAssociation
        /\ (call'.cur \/ call'.simulate)
        /\ SetNonKey(obj) = {}) =>
        /\ call'.err = "ok"
        /\ ~call'.updated
        /\ call'.stmts = <<>>
        /\ db' = db]_vars

\* update_fields_db returned False for a key-only instance whose row is in the
\* store
C18_Witness ==
    /\ call.op = "update_fields_db"
    /\ ~IsAssociation
    /\ Live(call)
    /\ SetNonKey(obj) = {}
    /\ SameKey(db, obj) # {}
    /\ call.err = "ok"
    /\ ~call.updated

\* C19: update_fields_db through a handle, on an instance of a type that has
\* the operation and with one or more non-key columns set, executes one UPDATE:
\* in the row that carries the instance's key it overwrites exactly the set
\* non-key columns (None writes NULL) and keeps the key and the columns unset
\* on the instance; every other row stays as it is; it returns True exactly
\* when a row with that key existed.
C19_PatchSetColumnsOfOwnRow ==
    [][(/\ call'.op = "update_fields_db"
        /\ ~IsAssociation
        /\ Live(call')
        /\ SetNonKey(obj) # {}) =>
        /\ call'.err = "ok"
        /\ Len(call'.stmts) = 1
        /\ call'.stmts[1].kind = "UPDATE"
        /\ call'.stmts[1].cols = SetNonKey(obj)
        /\ db' = (db \ SameKey(db, obj)) \cup
                 {[col \in DOMAIN r |-> IF col \in SetNonKey(obj)
                                        THEN obj.fields[col] ELSE r[col]] :
                     r \in SameKey(db, obj)}
        /\ call'.updated <=> (SameKey(db, obj) # {})]_vars

\* an UPDATE wrote NULL to the nullable column of the instance's row, kept the
\* column that is unset on the instance, and the store holds another row
C19_Witness ==
    /\ call.op = "update_fields_db"
    /\ Live(call)
    /\ call.updated
    /\ obj.fields["name"] = None
    /\ "pid" \in DOMAIN obj.fields
    /\ obj.fields["pid"] = UNSET
    /\ \E r \in SameKey(db, obj) : r["name"] = None /\ r["pid"] # None
    /\ db \ SameKey(db, obj) # {}

Patched(r, o) ==
    [col \in DOMAIN r |-> IF col \in SetNonKey(o) THEN o.fields[col] ELSE r[col]]

\* C21: for an instance of a type that has the operation, an upsert_to_db that
\* repeats the upsert_to_db before it (same instance, same field map, same
\* arguments) leaves the store as the first call left it, for every instance
\* and every store content.
C21_UpsertIdempotent ==
    [][(call'.op = "upsert_to_db" /\ call'.again /\ ~IsAssociation) => db' = db]_vars

\* the second of two upserts through a handle found the row the first one
\* inserted and patched it with the same values
C21_Witness ==
    /\ call.op = "upsert_to_db"
    /\ call.again
    /\ ~IsAssociation
    /\ Live(call)
    /\ call.err = "ok"
    /\ Len(call.stmts) = 1
    /\ call.stmts[1].kind = "UPDATE"
    /\ call.stmts[1].rowcount = 1
    /\ SameKey(db, obj) = {Patched(RowFor(obj), obj)}

\* the instance carries its key and one more column
OneExtra(o) == Cardinality(SetNonKey(o)) = 1

\* upsert_to_db through a handle on an instance with its key and one more column
UpsertOneExtra ==
    call'.op = "upsert_to_db" /\ Live(call') /\ ~IsAssociation /\ OneExtra(obj)

Probe == call'.op = "exists_in_db" /\ Live(call')

\* what C23 says of a probe that does not fail
ProbeAnswers ==
    /\ call'.err = "ok"
    /\ Len(call'.stmts) = 1
    /\ call'.stmts[1].kind = "SELECT"
    /\ call'.stmts[1].cols = PkSet(cls)
    /\ call'.found <=> (SameKey(db, obj) # {})
    /\ db' = db
    /\ obj' = obj

\* what C23 says of a probe that fails
ProbeFails == call'.err # "ok" /\ call'.stmts = <<>> /\ db' = db /\ obj' = obj

StoreOps == {"insert_to_db", "update_fields_db", "upsert_to_db", "exists_in_db"}

\* the call went through a handle and passed validation: it returned, or the
\* store raised on a statement
PastValidation == call.op \in StoreOps /\ Live(call) /\ call.err \in {"ok", "IntegrityError"}

\* the kinds of the statements executed, in order
Kinds == [i \in 1..Len(call.stmts) |-> call.stmts[i].kind]

RECURSIVE ReachesMutable(_)
ReachesMutable(v) ==
    \/ v.kind \in {"dict", "list", "set", "bytearray"}
    \/ \E i \in 1..Len(v.items) : ReachesMutable(v.items[i])

Created == call.op = "class" /\ call.err = "ok"
Inherits == Created /\ call.ret.knobs = "none"
OwnBaseline == Created /\ call.ret.knobs = "both"

SpotifyDeclared == call.op = "class" /\ res.name = "SPOTIFY_ENTITY_NAME"
ConcreteBody == DeclareUnder(FALSE, "SinglePkEntity", res.body).err = "ok"
                    /\ res.body.own = _BASE_FREEZE_KEYS
NameGiven == call.value.ty = "str" /\ strip(call.value.v) # <<>>

C27_SpotifyNameNormalised ==
    SpotifyDeclared /\ ConcreteBody =>
        IF NameGiven
        THEN call.err = "ok" /\ call.ret = StrOf(lower(strip(call.value.v)))
        ELSE call.err # "ok"

(***************************************************************************)
(* C28: insert_song_genius_data and insert_song_spotify_data are atomic.   *)
(* Called with no open connection, either raises RuntimeError and nothing  *)
(* is written.  Called on an open connection: when the wrapped insert      *)
(* raises, whatever it had written by then, the exception reaches the      *)
(* caller, the file is what it was before the call and the connection sees *)
(* the file again; when it returns, the store it left is the store of the  *)
(* file.                                                                   *)
(***************************************************************************)
LastInsert ==
    mgr.exists /\ mgr.last.op \in {"insert_song_genius_data", "insert_song_spotify_data"}

\* the i-th event of the last call wrote a row that no later write of the call
\* replaced
LastWriteOfRow(i) ==
    /\ mgr.last.trace[i].kind = "write"
    /\ \A j \in (i + 1)..Len(mgr.last.trace) :
          ~ /\ mgr.last.trace[j].kind = "write"
            /\ mgr.last.trace[j].table = mgr.last.trace[i].table
            /\ mgr.last.trace[j].data # mgr.last.trace[i].data

C28_InsertAtomic ==
    LastInsert =>
        IF ~mgr.last.pre.conn
        THEN /\ mgr.last.err = "RuntimeError"
             /\ mgr.last.trace = <<>>
             /\ mgr.file = mgr.last.pre.file /\ mgr.tx = mgr.last.pre.tx
        ELSE IF mgr.last.err # "ok"
             THEN mgr.file = mgr.last.pre.file /\ mgr.tx = mgr.file
        ELSE /\ mgr.file.rows = mgr.last.store /\ mgr.tx = mgr.file
             /\ \A i \in 1..Len(mgr.last.trace) :
                   LastWriteOfRow(i) =>
                       mgr.last.trace[i].data \in mgr.file.rows[mgr.last.trace[i].table]

\* the album test raised ValueError after the artist upserts had changed the
\* store the connection sees
C28_Witness ==
    /\ LastInsert /\ mgr.last.pre.conn
    /\ mgr.last.err = "ValueError"
    /\ mgr.last.trace # <<>>
    /\ \A i \in 1..Len(mgr.last.trace) : mgr.last.trace[i].kind = "write"
    /\ mgr.last.store # mgr.last.pre.file.rows

\* a call returned and committed rows, one of them over a row of an earlier run
C28_WitnessCommit ==
    /\ LastInsert /\ mgr.last.err = "ok"
    /\ mgr.last.pre.file.rows = Seeded
    /\ mgr.file.rows[GENIUS_SONG_INFO_TABLE_NAME] # {}

(***************************************************************************)
(* C30: conn is set only on a database that holds the tables and the       *)
(* current schema version, and then initialized is true.  open on a closed *)
(* manager not yet initialized: on a brand-new database it returns with    *)
(* conn set, the tables created and CURRENT_SCHEMA_VERSION recorded; on a  *)
(* database of an older version it raises NotImplementedError, on one of a *)
(* newer version RuntimeError, and in both cases no connection stays open, *)
(* conn stays unset, initialized stays false and the file is untouched.    *)
(* open on an open manager and close on a closed one change nothing.       *)
(***************************************************************************)
LastOpen == mgr.exists /\ mgr.last.op = "open"
LastClose == mgr.exists /\ mgr.last.op = "close"
Untouched ==
    /\ mgr.conn = mgr.last.pre.conn /\ mgr.initialized = mgr.last.pre.initialized
    /\ mgr.live = mgr.last.pre.live
    /\ mgr.file = mgr.last.pre.file /\ mgr.tx = mgr.last.pre.tx

C30_WitnessNoOp ==
    /\ LastOpen /\ mgr.last.pre.conn /\ mgr.file.version = CURRENT_SCHEMA_VERSION
    /\ mgr.file.rows = EmptyStore

(***************************************************************************)
(* C29: in insert_genius_song_info and in the Spotify insert_song the rows *)
(* are written artists first (each artist before its images), then the     *)
(* album, then its images, then the song, then the discography entries.    *)
(* Whenever a row is written, each row it references by a foreign key that *)
(* the song, the album or an artist of the call stands for has been        *)
(* written earlier in the call, and so has the owner of an image.  The     *)
(* album and the song are written after their tests have passed, and the   *)
(* artist and the album they name are objects of the call.                 *)
(***************************************************************************)
LastFlow == mgr.exists /\ mgr.last.op \in {"insert_genius_song_info", "insert_song"}

\* the class of the module whose table is t
ClassOfTable(t) ==
    The({mgr.entities[n] : n \in {k \in DOMAIN mgr.entities : mgr.entities[k].TABLE_NAME = t}})

\* the step of insert_song that writes table t
StepOfTable(t) ==
    CASE t \in {"genius_artist_info", "artists", "artist_images"} -> 1
      [] t \in {"genius_album_info", "albums"} -> 2
      [] t = "album_images" -> 3
      [] t \in {"genius_song_info", "songs"} -> 4
      [] OTHER -> 5

\* event i of the last call wrote a row; WrittenBefore(i, t, col, v): an
\* earlier event wrote a row of table t whose column col is v
WrittenBefore(i, t, col, v) ==
    \E j \in 1..(i - 1) :
        /\ mgr.last.trace[j].kind = "write"
        /\ mgr.last.trace[j].table = t
        /\ mgr.last.trace[j].data[col] = v

TestedBefore(i, t) ==
    \E j \in 1..(i - 1) : mgr.last.trace[j].kind = "check" /\ mgr.last.trace[j].table = t

\* every foreign key of the row event i wrote, to a table of the module,
\* names a supplied object
MatchesGiven(i) ==
    \A t \in DOMAIN get_fk_mapping(ClassOfTable(mgr.last.trace[i].table)) \cap
                {mgr.entities[k].TABLE_NAME : k \in DOMAIN mgr.entities} :
        \A ref \in DOMAIN get_fk_mapping(ClassOfTable(mgr.last.trace[i].table))[t] :
            \E g \in mgr.given :
                /\ g.table = t
                /\ g.fields[ref] =
                      mgr.last.trace[i].data[
                          get_fk_mapping(ClassOfTable(mgr.last.trace[i].table))[t][ref]]

C29_WriteOrder ==
    LastFlow =>
        \A i \in 1..Len(mgr.last.trace) :
            mgr.last.trace[i].kind = "write" =>
                /\ \A j \in 1..(i - 1) :
                      mgr.last.trace[j].kind = "write" =>
                          StepOfTable(mgr.last.trace[j].table)
                              <= StepOfTable(mgr.last.trace[i].table)
                /\ \A t \in DOMAIN get_fk_mapping(ClassOfTable(mgr.last.trace[i].table)) :
                      \A ref \in DOMAIN get_fk_mapping(ClassOfTable(mgr.last.trace[i].table))[t] :
                          (\E g \in mgr.given :
                              /\ g.table = t
                              /\ g.fields[ref] =
                                    mgr.last.trace[i].data[
                                        get_fk_mapping(ClassOfTable(mgr.last.trace[i].table))[t][ref]])
                          => WrittenBefore(i, t, ref,
                                 mgr.last.trace[i].data[
                                     get_fk_mapping(ClassOfTable(mgr.last.trace[i].table))[t][ref]])
                /\ mgr.last.trace[i].table \in {"artist_images", "album_images"} =>
                      \A t \in DOMAIN get_fk_mapping(ClassOfTable(mgr.last.trace[i].table)) :
                          \A ref \in DOMAIN
                                  get_fk_mapping(ClassOfTable(mgr.last.trace[i].table))[t] :
                              WrittenBefore(i, t, ref,
                                  mgr.last.trace[i].data[
                                      get_fk_mapping(ClassOfTable(mgr.last.trace[i].table))[t][ref]])
                /\ StepOfTable(mgr.last.trace[i].table) \in {2, 4} =>
                      /\ TestedBefore(i, mgr.last.trace[i].table)
                      /\ MatchesGiven(i)

\* insert_song returned after writing two artists, an image of each owner,
\* the album, the song and two discography entries
C29_Witness ==
    /\ LastFlow /\ mgr.last.op = "insert_song" /\ mgr.last.err = "ok"
    /\ \E i, j \in 1..Len(mgr.last.trace) :
          /\ mgr.last.trace[i].table = "artist_images"
          /\ mgr.last.trace[j].table = "album_images"
    /\ Cardinality({i \in 1..Len(mgr.last.trace) :
                       mgr.last.trace[i].table = "discography"}) = 2

\* insert_genius_song_info returned after writing two artists, the album of
\* the featured one, the song and two discography entries
C29_WitnessGenius ==
    /\ LastFlow /\ mgr.last.op = "insert_genius_song_info" /\ mgr.last.err = "ok"
    /\ Cardinality({i \in 1..Len(mgr.last.trace) :
                       mgr.last.trace[i].table = "genius_discography"}) = 2
    /\ \E i \in 1..Len(mgr.last.trace) :
          /\ mgr.last.trace[i].kind = "write"
          /\ mgr.last.trace[i].table = "genius_album_info"
          /\ mgr.last.trace[i].data["primary_artist_genius_id"] # mgr.args.primary_artist.fields["genius_id"]

====
